---- MODULE Spec2Model ----
(***************************************************************************)
(* CloudCostIQ mock data service (src/services/mockData.ts, kept here as   *)
(* src/unnamed/part_002): the generation stages run by the constructor,    *)
(* the anomaly extractor and the forecast projector.                       *)
(*                                                                         *)
(* Conventions                                                             *)
(*  - A JavaScript Date is its time value in whole hours since             *)
(*    1970-01-01T00:00Z.  Local-time methods (getDate, setDate, getDay,    *)
(*    setHours, getMonth, getFullYear) go through the host time zone tz;   *)
(*    toISOString and the parsing of a date-only string are UTC.           *)
(*  - A date string "YYYY-MM-DD" is the number of its UTC day (days since  *)
(*    1970-01-01); it compares and orders as the string does.              *)
(*  - Money is in cents, Math.random() values are in thousandths.          *)
(*  - Where the code stores a value in a local variable and reads it       *)
(*    several times, the model binds it with  v \in {e}  (CHOOSE over a    *)
(*    one-element set), which has the meaning of LET v == e.               *)
(***************************************************************************)
EXTENDS Integers, Sequences, FiniteSets, TLC

VARIABLES
  now,              \* the instant the code reads with new Date()
  tz,               \* the host time zone
  tape,             \* the values Math.random() returns, read cyclically
  rpos,             \* number of Math.random() calls made so far, modulo the tape
  uuids,            \* number of uuidv4() values issued so far
  seed,             \* value the seededRandom generator returns first, times 233280
  stage,            \* position of the constructor / of the caller
  resources,        \* MockDataService.resources
  costData,         \* MockDataService.costData
  utilizationData,  \* MockDataService.utilizationData
  anomalyData,      \* MockDataService.anomalyData
  budgets,          \* MockDataService.budgets
  optimizationData, \* MockDataService.optimizationData: <<>> for null, else one value
  call,             \* arguments and outcome of the last public call
  component,        \* state of the mounted React hook or page
  timers            \* callbacks handed to setTimeout and not yet run, in firing order

vars ==
  <<now, tz, tape, rpos, uuids, seed, stage, resources, costData, utilizationData, anomalyData,
    budgets, optimizationData, call, component, timers>>

(***************************************************************************)
(* Bounds of the model.                                                    *)
(***************************************************************************)
\* generateResources(count = 50), run over a shorter list
ResourceCount == 4
\* generateCostData(days = 90), run over a shorter window
CostDays == 7
\* generateUtilizationData(days = 30), run over a shorter window
UtilDays == 2
\* services of each provider's list that get a cost series
NumServices == 2
\* generateAnomalies(count = 5), run with a smaller count
AnomalyCount == 2
\* period of the Math.random() tape
TapeLen == 3
\* longest cost series handed to the anomaly extractor on its own
MaxEntries == 3
\* runs of the anomaly extractor over one cost series
MaxRuns == 2

(***************************************************************************)
(* Calendar (proleptic Gregorian), as ECMAScript's Day/MakeDay compute it. *)
(***************************************************************************)
HoursPerDay == 24

\* month (0-based as in JS) and day of month from the day of the March-based year
CivilOfYear(y0, doy) ==
  CHOOSE c \in { [ year  |-> y0 + (IF mp >= 10 THEN 1 ELSE 0),
                   month |-> IF mp < 10 THEN mp + 2 ELSE mp - 10,
                   date  |-> doy - (153 * mp + 2) \div 5 + 1 ] :
                 mp \in {(5 * doy + 2) \div 153} } : TRUE

\* year of the 400-year era and day of that year from the day of the era
CivilOfEra(era, doe) ==
  CHOOSE c \in { CivilOfYear(yoe + era * 400, doe - (365 * yoe + yoe \div 4 - yoe \div 100)) :
                 yoe \in {(doe - doe \div 1460 + doe \div 36524 - doe \div 146096) \div 365} } : TRUE

\* YearFromTime, MonthFromTime, DateFromTime of a day number
Civil(days) ==
  CHOOSE c \in { CivilOfEra(z \div 146097, z % 146097) : z \in {days + 719468} } : TRUE

\* day number of the first day of month mn (1..12) of year ym
DaysFromCivil(ym, mn) ==
  LET y   == IF mn <= 2 THEN ym - 1 ELSE ym
      mp  == IF mn > 2 THEN mn - 3 ELSE mn + 9
  IN  (y \div 400) * 146097 + (y % 400) * 365 + (y % 400) \div 4 - (y % 400) \div 100
        + (153 * mp + 2) \div 5 - 719468

\* MakeDay(year, month, date): month 0-based and possibly out of 0..11, date any integer
MakeDay(year, month, date) ==
  CHOOSE r \in { DaysFromCivil(y + (m + 1200) \div 12 - 100, ((m + 1200) % 12) + 1) + date - 1 :
                 y \in {year}, m \in {month} } : TRUE

\* 0 is Sunday; day 0 (1970-01-01) was a Thursday
WeekDay(days) == (days + 4) % 7

(***************************************************************************)
(* Host time zone: offset `before` hours up to the transition instant `at` *)
(* (UTC hours), `after` hours from then on.                                *)
(***************************************************************************)
Offset(t) == IF t < tz.at THEN tz.before ELSE tz.after

LocalTime(t) == CHOOSE l \in { v + Offset(v) : v \in {t} } : TRUE

\* UTC(t_local): a repeated or skipped local time is read with the offset
\* in force before the transition
UTC(local) ==
  CHOOSE u \in { IF l - tz.before < tz.at THEN l - tz.before
                 ELSE IF l - tz.after >= tz.at THEN l - tz.after ELSE l - tz.before :
                 l \in {local} } : TRUE

\* Date.prototype.getDate / getDay / getMonth / getFullYear / getHours
GetDate(t) == Civil(LocalTime(t) \div HoursPerDay).date
GetDay(t) == WeekDay(LocalTime(t) \div HoursPerDay)
GetMonth(t) == Civil(LocalTime(t) \div HoursPerDay).month
GetFullYear(t) == Civil(LocalTime(t) \div HoursPerDay).year
GetHours(t) == LocalTime(t) % HoursPerDay

\* Date.prototype.setDate(n): local year, month and time of day kept
SetDate(t, n) ==
  CHOOSE r \in { UTC(MakeDay(Civil(l \div HoursPerDay).year, Civil(l \div HoursPerDay).month, n)
                       * HoursPerDay + (l % HoursPerDay)) :
                 l \in {LocalTime(t)} } : TRUE

\* Date.prototype.setHours(h): local day kept
SetHours(t, h) == UTC((LocalTime(t) \div HoursPerDay) * HoursPerDay + h)

\* new Date(year, month + 1, 0).getDate()
DaysInMonth(year, month) == MakeDay(year, month + 1, 0) - MakeDay(year, month, 0)

\* formatDate: date.toISOString().split('T')[0]
formatDate(t) == t \div HoursPerDay

\* new Date("YYYY-MM-DD"): a date-only string is UTC midnight
ParseDate(dateStr) == dateStr * HoursPerDay

(***************************************************************************)
(* Random sources.                                                         *)
(***************************************************************************)
\* Math.random(), k calls after the cursor: a value in [0, 1) in thousandths
MathRandom(k) == tape[((rpos + k) % TapeLen) + 1]

LcgModulus == 233280

\* seededRandom: seed = (seed * 9301 + 49297) % 233280, without leaving 32 bits
Lcg(s) ==
  CHOOSE r \in { ((((v * 93) % LcgModulus) * 100) + v + 49297) % LcgModulus : v \in {s} } : TRUE

RECURSIVE LcgN(_, _)
\* the generator's state n calls later
LcgN(s, n) == IF n = 0 THEN s ELSE LcgN(Lcg(s), n - 1)

\* Math.floor(random() * n) for a generator value v = random() * 233280
FloorRandom(v, n) == (v * n) \div LcgModulus

\* x / y rounded to the nearest integer (toFixed of a non-negative number)
RoundDiv(x, y) == (2 * x + y) \div (2 * y)

(***************************************************************************)
(* Constants of the mock data (part_002:151-189).                          *)
(***************************************************************************)
CLOUD_PROVIDERS == <<"AWS", "Azure", "GCP">>
AWS_REGIONS == <<"us-east-1", "us-west-1", "us-west-2", "eu-west-1", "ap-southeast-1">>
AZURE_REGIONS == <<"eastus", "westus", "westeurope", "southeastasia", "centralus">>
GCP_REGIONS == <<"us-central1", "us-east1", "us-west1", "europe-west1", "asia-east1">>
AWS_SERVICES == <<"EC2", "S3", "RDS", "Lambda", "ECS", "DynamoDB", "ELB", "CloudFront">>
AZURE_SERVICES == <<"Virtual Machines", "Storage", "SQL Database", "Functions", "App Service", "Cosmos DB", "Load Balancer", "CDN">>
GCP_SERVICES == <<"Compute Engine", "Cloud Storage", "Cloud SQL", "Cloud Functions", "GKE", "Bigtable", "Load Balancing", "CDN">>
STATUSES == <<"running", "stopped", "terminated", "pending">>

RegionsOf(provider) ==
  IF provider = "AWS" THEN AWS_REGIONS
  ELSE IF provider = "Azure" THEN AZURE_REGIONS ELSE GCP_REGIONS

ServicesOf(provider) ==
  IF provider = "AWS" THEN AWS_SERVICES
  ELSE IF provider = "Azure" THEN AZURE_SERVICES ELSE GCP_SERVICES

\* RESOURCE_TYPES[provider][service] || RESOURCE_TYPES[provider][first service]
RESOURCE_TYPES(provider, service) ==
  CASE provider = "AWS" /\ service = "S3" ->
         <<"Standard", "Intelligent-Tiering", "Standard-IA", "One Zone-IA", "Glacier", "Glacier Deep Archive">>
    [] provider = "AWS" /\ service = "RDS" ->
         <<"db.t3.micro", "db.t3.small", "db.m5.large", "db.m5.xlarge", "db.r5.large", "db.r5.xlarge">>
    [] provider = "AWS" /\ service \notin {"S3", "RDS"} ->
         <<"t3.micro", "t3.small", "t3.medium", "t3.large", "m5.large", "m5.xlarge", "c5.large", "c5.xlarge", "r5.large", "r5.xlarge">>
    [] provider = "Azure" /\ service = "Storage" ->
         <<"LRS", "ZRS", "GRS", "RA-GRS", "GZRS", "RA-GZRS">>
    [] provider = "Azure" /\ service = "SQL Database" ->
         <<"Basic", "Standard", "Premium", "General Purpose", "Business Critical", "Hyperscale">>
    [] provider = "Azure" /\ service \notin {"Storage", "SQL Database"} ->
         <<"B1s", "B2s", "D2s_v3", "D4s_v3", "E2s_v3", "E4s_v3", "F2s_v2", "F4s_v2">>
    [] provider = "GCP" /\ service = "Cloud Storage" ->
         <<"Standard", "Nearline", "Coldline", "Archive">>
    [] provider = "GCP" /\ service = "Cloud SQL" ->
         <<"db-f1-micro", "db-g1-small", "db-custom-2-4096", "db-custom-4-8192">>
    [] OTHER ->
         <<"e2-micro", "e2-small", "e2-medium", "n1-standard-1", "n1-standard-2", "n1-standard-4", "c2-standard-4", "c2-standard-8">>

\* String.prototype.includes over the names above: the names holding each needle
Includes(name, needle) ==
  CASE needle = "micro"    -> name \in {"t3.micro", "db.t3.micro", "e2-micro", "db-f1-micro"}
    [] needle = "t3."      -> name \in {"t3.micro", "t3.small", "t3.medium", "t3.large", "db.t3.micro", "db.t3.small"}
    [] needle = "small"    -> name \in {"t3.small", "db.t3.small", "e2-small", "db-g1-small"}
    [] needle = "medium"   -> name \in {"t3.medium", "e2-medium"}
    [] needle = "large"    -> name \in {"t3.large", "m5.large", "m5.xlarge", "c5.large", "c5.xlarge",
                                         "r5.large", "r5.xlarge", "db.m5.large", "db.m5.xlarge",
                                         "db.r5.large", "db.r5.xlarge"}
    [] needle = "Standard" -> name \in {"Standard", "Standard-IA"}
    [] needle = "IA"       -> name \in {"Standard-IA", "One Zone-IA"}
    [] needle = "Nearline" -> name \in {"Nearline"}
    [] needle = "EC2"      -> name = "EC2"
    [] needle = "Virtual Machines" -> name = "Virtual Machines"
    [] needle = "Compute Engine"   -> name = "Compute Engine"
    [] needle = "S3"       -> name = "S3"
    [] needle = "Storage"  -> name \in {"Storage", "Cloud Storage"}
    [] needle = "RDS"      -> name = "RDS"
    [] needle = "SQL"      -> name \in {"SQL Database", "Cloud SQL"}
    [] needle = "Database" -> name = "SQL Database"
    [] OTHER -> FALSE

IsCompute(service) ==
  Includes(service, "EC2") \/ Includes(service, "Virtual Machines") \/ Includes(service, "Compute Engine")

IsDatabase(service) ==
  Includes(service, "RDS") \/ Includes(service, "SQL") \/ Includes(service, "Database")

(***************************************************************************)
(* generateResources (part_002:221-326).                                    *)
(***************************************************************************)
\* a + random() * span dollars, toFixed(2), in cents; v = random() * 233280
SeededAmount(a, span, v) == RoundDiv(a * 100 * 5832 + v * ((span * 100) \div 40), 5832)

\* monthly_cost of a resource from the generator value v (part_002:275-297)
MonthlyCost(service, size, v) ==
  IF IsCompute(service)
  THEN IF Includes(size, "micro") \/ Includes(size, "t3.") \/ Includes(size, "small")
       THEN SeededAmount(10, 50, v)
       ELSE IF Includes(size, "medium") \/ Includes(size, "large")
            THEN SeededAmount(50, 150, v)
            ELSE SeededAmount(200, 800, v)
  ELSE IF Includes(service, "S3") \/ Includes(service, "Storage")
       THEN IF Includes(size, "Standard")
            THEN SeededAmount(30, 100, v)
            ELSE IF Includes(size, "IA") \/ Includes(size, "Nearline")
                 THEN SeededAmount(15, 50, v)
                 ELSE SeededAmount(5, 20, v)
       ELSE IF IsDatabase(service)
            THEN SeededAmount(100, 500, v)
            ELSE SeededAmount(20, 200, v)

\* Math.random() calls one resource makes: its id (3 for an Azure path) and its name
IdCalls(provider) == IF provider = "Azure" THEN 3 ELSE 1

\* One iteration of the loop: i is the index, v the value the next random() call
\* returns, k the number of Math.random() calls made so far by this run.
Resource(i, v, k) ==
  LET provider  == CLOUD_PROVIDERS[FloorRandom(v, 3) + 1]
      v2        == Lcg(v)
      region    == RegionsOf(provider)[FloorRandom(v2, 5) + 1]
      v3        == Lcg(v2)
      service   == ServicesOf(provider)[FloorRandom(v3, 8) + 1]
      types     == RESOURCE_TYPES(provider, service)
      v4        == Lcg(v3)
      size      == types[FloorRandom(v4, Len(types)) + 1]
      v5        == Lcg(v4)
      createdAgo == FloorRandom(v5, 365) + 1
      v6        == Lcg(v5)
      afterCreation == FloorRandom(v6, createdAgo)
      v7        == Lcg(v6)
      v8        == Lcg(v7)
      numTags   == FloorRandom(v8, 3) + 1
      vStatus   == LcgN(v8, 2 * numTags + 1)
  IN  [ res |-> [ id            |-> [n |-> i, r |-> MathRandom(k)],
                  name          |-> [n |-> i, r |-> MathRandom(k + IdCalls(provider))],
                  type          |-> service,
                  provider      |-> provider,
                  region        |-> region,
                  status        |-> STATUSES[FloorRandom(vStatus, 4) + 1],
                  size          |-> size,
                  monthly_cost  |-> MonthlyCost(service, size, v7),
                  creation_date |-> formatDate(SetDate(now, GetDate(now) - createdAgo)),
                  last_modified |-> formatDate(SetDate(now, GetDate(now) - createdAgo + afterCreation)) ],
        next |-> Lcg(vStatus),
        calls |-> k + IdCalls(provider) + 1 ]

\* the loop state after iteration i: the resources pushed, the generator's next
\* value and the number of Math.random() calls made
ResourceStep(i, acc) ==
  CHOOSE a \in { [list |-> Append(acc.list, r.res), next |-> r.next, calls |-> r.calls] :
                 r \in {Resource(i, acc.next, acc.calls)} } : TRUE

RECURSIVE GenerateResourcesFrom(_, _, _)
\* the loop of generateResources from iteration i on (each loop state is
\* bound to a value before the next iteration reads it)
GenerateResourcesFrom(i, count, acc) ==
  IF i >= count THEN acc
  ELSE CHOOSE out \in { GenerateResourcesFrom(i + 1, count, a) : a \in {ResourceStep(i, acc)} } : TRUE

(***************************************************************************)
(* generateUtilizationData (part_002:396-488).                              *)
(***************************************************************************)
\* a + Math.random() * span percent, in thousandths of a percent
BaseUtil(a, span, r) == a * 1000 + r * span

\* baseCpuUtil of a resource, r the Math.random() value drawn for it
BaseCpuUtil(resource, r) ==
  IF IsCompute(resource.type)
  THEN IF Includes(resource.size, "micro") \/ Includes(resource.size, "small")
       THEN BaseUtil(50, 30, r)
       ELSE IF Includes(resource.size, "medium") \/ Includes(resource.size, "large")
            THEN BaseUtil(30, 40, r)
            ELSE BaseUtil(10, 30, r)
  ELSE IF IsDatabase(resource.type)
       THEN BaseUtil(30, 20, r)
       ELSE IF Includes(resource.type, "S3") \/ Includes(resource.type, "Storage")
            THEN BaseUtil(5, 10, r)
            ELSE BaseUtil(20, 30, r)

\* baseMemoryUtil of a resource, r the Math.random() value drawn for it
BaseMemoryUtil(resource, r) ==
  IF IsCompute(resource.type)
  THEN IF Includes(resource.size, "micro") \/ Includes(resource.size, "small")
       THEN BaseUtil(60, 25, r)
       ELSE IF Includes(resource.size, "medium") \/ Includes(resource.size, "large")
            THEN BaseUtil(40, 30, r)
            ELSE BaseUtil(20, 40, r)
  ELSE IF IsDatabase(resource.type)
       THEN BaseUtil(60, 30, r)
       ELSE IF Includes(resource.type, "S3") \/ Includes(resource.type, "Storage")
            THEN BaseUtil(10, 20, r)
            ELSE BaseUtil(30, 40, r)

Max(a, b) == CHOOSE m \in { IF x >= y THEN x ELSE y : x \in {a}, y \in {b} } : TRUE
Min(a, b) == CHOOSE m \in { IF x <= y THEN x ELSE y : x \in {a}, y \in {b} } : TRUE

RECURSIVE SampleTime(_, _, _)
\* the date object of day i after date.setHours(hour), hour = 0, 6, 12, 18 in turn
SampleTime(days, i, hour) ==
  IF hour = 0
  THEN SetHours(SetDate(now, GetDate(now) - days + i + 1), 0)
  ELSE SetHours(SampleTime(days, i, hour - 6), hour)

\* no cap on the value
Unclamped(x, lo, hi) == x

\* Math.min(Math.max(x, lo), hi)
Clamp(x, lo, hi) == Min(Max(x, lo), hi)

\* the sample pushed for the Date `date`; k Math.random() calls were made before it
SampleOn(resource, baseCpuUtil, baseMemoryUtil, date, hour, k) ==
  LET hourFactor    == IF hour >= 8 /\ hour <= 18 THEN 12 ELSE 8
      dayOfWeek     == GetDay(date)
      weekendFactor == IF dayOfWeek = 0 \/ dayOfWeek = 6 THEN 6 ELSE 10
      randomFactor  == 800 + (MathRandom(k) * 400) \div 1000
      memoryFactor  == 900 + (MathRandom(k + 1) * 200) \div 1000
      rawCpu        == (((baseCpuUtil * hourFactor * weekendFactor) \div 100) * randomFactor) \div 1000
      rawMemory     == (((baseMemoryUtil * hourFactor * weekendFactor) \div 100) * memoryFactor) \div 1000
      cpuPercent    == Clamp(rawCpu, 1000, 99000)
      memoryPercent == Clamp(rawMemory, 5000, 99000)
      networkMbps   == (cpuPercent * (1000 + MathRandom(k + 2))) \div 1000
      diskIops      == (memoryPercent * (500 + 2 * MathRandom(k + 3))) \div 1000
  IN  [ resource_id    |-> resource.id,
        timestamp      |-> date,
        cpu_percent    |-> RoundDiv(cpuPercent, 100),
        memory_percent |-> RoundDiv(memoryPercent, 100),
        network_mbps   |-> RoundDiv(networkMbps, 100),
        disk_iops      |-> RoundDiv(diskIops, 100),
        instance_type  |-> resource.size,
        provider       |-> resource.provider ]

\* the sample of day i at `hour`
Sample(resource, baseCpuUtil, baseMemoryUtil, days, i, hour, k) ==
  CHOOSE u \in { SampleOn(resource, baseCpuUtil, baseMemoryUtil, date, hour, k) :
                 date \in {SampleTime(days, i, hour)} } : TRUE

\* the samples of one running resource, 4 a day; k Math.random() calls made before
ResourceSamples(resource, days, k) ==
  CHOOSE list \in
    { [ j \in 1..(4 * days) |->
          Sample(resource, baseCpuUtil, baseMemoryUtil, days,
                 (j - 1) \div 4, ((j - 1) % 4) * 6, k0 + 2 + 4 * (j - 1)) ] :
      baseCpuUtil \in {BaseCpuUtil(resource, MathRandom(k))},
      baseMemoryUtil \in {BaseMemoryUtil(resource, MathRandom(k + 1))},
      k0 \in {k} } : TRUE

\* Math.random() calls made for the resources before index n: 2 for the
\* baselines and 4 for each of the 4 * days samples of every running one
UtilizationCalls(n, days) ==
  Cardinality({m \in 1..(n - 1) : resources[m].status = "running"}) * (2 + 16 * days)

RECURSIVE UtilizationFromAnyStatus(_, _)
\* mutant of UtilizationFrom: the status test is dropped
UtilizationFromAnyStatus(n, days) ==
  IF n > Len(resources) THEN <<>>
  ELSE ResourceSamples(resources[n], days, UtilizationCalls(n, days))
         \o UtilizationFromAnyStatus(n + 1, days)

RECURSIVE UtilizationFrom(_, _)
\* this.resources.forEach from index n on: only running resources get samples
UtilizationFrom(n, days) ==
  IF n > Len(resources) THEN <<>>
  ELSE (IF resources[n].status = "running"
        THEN ResourceSamples(resources[n], days, UtilizationCalls(n, days))
        ELSE <<>>) \o UtilizationFrom(n + 1, days)

(***************************************************************************)
(* generateCostData (part_002:331-391).  Intermediate amounts are in       *)
(* hundredths of a cent, daily_cost in cents.                              *)
(***************************************************************************)
\* baseCost of a (provider, service) pair, r the Math.random() value drawn for it
BaseCost(provider, r) ==
  IF provider = "AWS" THEN 1000 * 10000 + r * 2000 * 10
  ELSE IF provider = "Azure" THEN 800 * 10000 + r * 1500 * 10
       ELSE 500 * 10000 + r * 1000 * 10

\* mutant of CostFloor: no floor
CostFloorMissing(dailyCost) == dailyCost

\* Math.max(dailyCost, 10)
CostFloor(dailyCost) == Max(dailyCost, 10 * 10000)

\* monthIndex of the Date `date` in a series ending at endDate
MonthIndex(date, endDate) ==
  GetMonth(date) + (GetFullYear(date) - GetFullYear(endDate)) * 12

\* trendFactor, in hundredths
TrendFactor(monthIndex) == 100 + monthIndex * 5

\* the Date of iteration i of the daily loop
LoopDate(days, i) == SetDate(now, GetDate(now) - days + i + 1)

\* the entry pushed for the Date `date`; k Math.random() calls were made before it
CostEntryOn(provider, service, baseCost, endDate, date, k) ==
  LET dayOfWeek      == GetDay(date)
      weekendFactor  == IF dayOfWeek = 0 \/ dayOfWeek = 6 THEN 7 ELSE 10
      dayOfMonth     == GetDate(date)
      daysInMonth    == DaysInMonth(GetFullYear(date), GetMonth(date))
      monthEndFactor == IF dayOfMonth > daysInMonth - 5 THEN 12 ELSE 10
      trendFactor    == TrendFactor(MonthIndex(date, endDate))
      randomFactor   == 900 + (MathRandom(k) * 200) \div 1000
      spike          == MathRandom(k + 1) < 20
      spikeFactor    == IF spike THEN 200 + (MathRandom(k + 2) * 300) \div 1000 ELSE 100
      x1             == baseCost \div 30
      x2             == (x1 * weekendFactor) \div 10
      x3             == (x2 * monthEndFactor) \div 10
      x4             == (x3 * trendFactor) \div 100
      x5             == (x4 * randomFactor) \div 1000
      dailyCost      == (x5 * spikeFactor) \div 100
  IN  [ entry |-> [ date           |-> formatDate(date),
                    daily_cost     |-> RoundDiv(CostFloor(dailyCost), 100),
                    service        |-> service,
                    cloud_provider |-> provider ],
        calls |-> k + (IF spike THEN 3 ELSE 2) ]

\* iteration i of the daily loop: date = new Date(endDate); date.setDate(...)
CostEntry(provider, service, baseCost, days, i, k) ==
  CHOOSE e \in { CostEntryOn(provider, service, baseCost, now, date, k) :
                 date \in {LoopDate(days, i)} } : TRUE

\* the loop state after day i: the entries pushed and the Math.random() calls made
CostStep(provider, service, baseCost, days, i, acc) ==
  CHOOSE a \in { [list |-> Append(acc.list, e.entry), calls |-> e.calls] :
                 e \in {CostEntry(provider, service, baseCost, days, i, acc.calls)} } : TRUE

RECURSIVE ServiceCostsFrom(_, _, _, _, _, _)
\* the daily loop of one (provider, service) pair from day i on
ServiceCostsFrom(provider, service, baseCost, days, i, acc) ==
  IF i >= days THEN acc
  ELSE CHOOSE out \in { ServiceCostsFrom(provider, service, baseCost, days, i + 1, a) :
                          a \in {CostStep(provider, service, baseCost, days, i, acc)} } : TRUE

\* the (provider, service) pairs in the order of the two forEach loops
CostPairs ==
  [ n \in 1..(Len(CLOUD_PROVIDERS) * NumServices) |->
      LET provider == CLOUD_PROVIDERS[((n - 1) \div NumServices) + 1]
      IN  [provider |-> provider, service |-> ServicesOf(provider)[((n - 1) % NumServices) + 1]] ]

RECURSIVE CostDataFrom(_, _, _)
\* the two forEach loops of generateCostData from pair n on
CostDataFrom(n, days, acc) ==
  IF n > Len(CostPairs) THEN acc
  ELSE CHOOSE out \in
         { CostDataFrom(n + 1, days, a) :
             a \in { ServiceCostsFrom(CostPairs[n].provider, CostPairs[n].service,
                                      BaseCost(CostPairs[n].provider, MathRandom(acc.calls)),
                                      days, 0, [list |-> acc.list, calls |-> acc.calls + 1]) } } : TRUE

(***************************************************************************)
(* generateAnomalies (part_002:493-537).                                    *)
(***************************************************************************)
\* place of data[j] after [...data].sort((a, b) => b.daily_cost - a.daily_cost):
\* behind every dearer entry and, the sort being stable, every earlier equal one
RankByCost(data, j) ==
  1 + Cardinality({ i \in 1..Len(data) :
                      \/ data[i].daily_cost > data[j].daily_cost
                      \/ data[i].daily_cost = data[j].daily_cost /\ i < j })

\* index in data of the entry the sort puts at place r
SortedIndex(data, r) == CHOOSE j \in 1..Len(data) : RankByCost(data, j) = r

\* sortedData
SortByCostDesc(data) == [r \in 1..Len(data) |-> data[SortedIndex(data, r)]]

\* dateObj = new Date(costEntry.date); dateObj.setDate(dateObj.getDate() - 1); formatDate(dateObj)
PrevDate(dateStr) ==
  LET dateObj == ParseDate(dateStr)
  IN  formatDate(SetDate(dateObj, GetDate(dateObj) - 1))

\* the predicate of this.costData.find(...)
IsPrevDayOf(entry, prevDate, costEntry) ==
  /\ entry.date = prevDate
  /\ entry.service = costEntry.service
  /\ entry.cloud_provider = costEntry.cloud_provider

\* Array.prototype.find over the indices that match: the first one, 0 when none does
FirstOf(hits) ==
  CHOOSE f \in { IF h = {} THEN 0 ELSE CHOOSE j \in h : \A m \in h : j <= m : h \in {hits} } : TRUE

\* index of prevDayCost in data, 0 when find returns undefined
FindPrevDay(data, costEntry) ==
  CHOOSE f \in { FirstOf({j \in 1..Len(data) : IsPrevDayOf(data[j], prevDate, costEntry)}) :
                 prevDate \in {PrevDate(costEntry.date)} } : TRUE

\* percentageIncrease > 25, for (cost / prev - 1) * 100
IsSignificant(cost, prev) == (cost - prev) * 100 > 25 * prev

\* severity of a significant increase
Severity(cost, prev) ==
  IF (cost - prev) * 100 > 100 * prev THEN "high"
  ELSE IF (cost - prev) * 100 > 50 * prev THEN "medium" ELSE "low"

\* the anomaly pushed for costEntry against prevDayCost; n uuids and k
\* Math.random() calls were made before it.  percentage_increase is in tenths.
MakeAnomaly(costEntry, prevDayCost, n, k) ==
  [ id                  |-> uuids + n + 1,
    date                |-> costEntry.date,
    daily_cost          |-> costEntry.daily_cost,
    service             |-> costEntry.service,
    cloud_provider      |-> costEntry.cloud_provider,
    expected_cost       |-> prevDayCost.daily_cost,
    percentage_increase |-> RoundDiv((costEntry.daily_cost - prevDayCost.daily_cost) * 1000,
                                     prevDayCost.daily_cost),
    severity            |-> Severity(costEntry.daily_cost, prevDayCost.daily_cost),
    is_anomaly          |-> TRUE,
    anomaly_score       |-> 800 + (MathRandom(k) * 200) \div 1000 ]

\* whether the scan pushes an anomaly for data[c], the prior day's entry being data[j]
Pushes(data, c, j) == j # 0 /\ IsSignificant(data[c].daily_cost, data[j].daily_cost)

RECURSIVE ScanAnomalies(_, _, _, _)

\* the body of the scan loop for costEntry = data[c] and prevDayCost = data[found]
ScanEntry(data, count, i, n, c, found) ==
  CHOOSE out \in
    { IF Pushes(data, c, j)
      THEN <<MakeAnomaly(data[c], data[j], n, n)>> \o ScanAnomalies(data, count, i + 1, n + 1)
      ELSE ScanAnomalies(data, count, i + 1, n) : j \in {found} } : TRUE

\* the scan loop from place i (1-based) of sortedData on; n anomalies pushed so far
ScanAnomalies(data, count, i, n) ==
  IF i > count * 2 \/ i > Len(data) THEN <<>>
  ELSE CHOOSE out \in
         { ScanEntry(data, count, i, n, c, FindPrevDay(data, data[c])) :
             c \in {SortedIndex(data, i)} } : TRUE

\* mutant of Slice: the list is not cut
SliceMissing(list, count) == list

\* anomalies.slice(0, count)
Slice(list, count) == SubSeq(list, 1, Min(count, Len(list)))

\* mutant of SortedCopy: this.costData.sort(...) without the copy
SortedInPlace(data) == SortByCostDesc(data)

\* this.costData after  sortedData = [...this.costData].sort(...) : the copy is sorted
SortedCopy(data) == data

\* all anomalies pushed by the scan, before the slice
PushedAnomalies(data, count) == ScanAnomalies(data, count, 1, 0)

\* the value generateAnomalies(count) assigns to this.anomalyData
Anomalies(data, count) == Slice(PushedAnomalies(data, count), count)

(***************************************************************************)
(* generateBudgets (part_002:542-728).  Amounts are in cents, jitter        *)
(* factors in 1/10000, a progress is the fraction num / den.                *)
(***************************************************************************)
\* Date.prototype.setMonth(m): local year, date and time of day kept
SetMonth(t, m) ==
  CHOOSE r \in { UTC(MakeDay(Civil(l \div HoursPerDay).year, m, Civil(l \div HoursPerDay).date)
                       * HoursPerDay + (l % HoursPerDay)) :
                 l \in {LocalTime(t)} } : TRUE

RECURSIVE SumCost(_, _)
\* entries.reduce((sum, entry) => sum + entry.daily_cost, 0) over the first n entries
SumCost(entries, n) == IF n = 0 THEN 0 ELSE entries[n].daily_cost + SumCost(entries, n - 1)

\* the entries of this.costData of one provider and service
EntriesFor(provider, service) ==
  SelectSeq(costData, LAMBDA entry : entry.cloud_provider = provider /\ entry.service = service)

\* costByProviderService[provider]: the services with entries, in the order of
\* the services list, each with its totalCost
CostByService(provider) ==
  LET all == [n \in 1..Len(ServicesOf(provider)) |->
                CHOOSE c \in { [service |-> ServicesOf(provider)[n], totalCost |-> SumCost(es, Len(es)),
                                present |-> Len(es) > 0] :
                               es \in {EntriesFor(provider, ServicesOf(provider)[n])} } : TRUE]
  IN  SelectSeq(all, LAMBDA c : c.present)

\* place of list[j] after a sort in ascending order, (a, b) => a[1] - b[1]
RankByTotalAscending(list, j) ==
  1 + Cardinality({ i \in 1..Len(list) :
                      \/ list[i].totalCost < list[j].totalCost
                      \/ list[i].totalCost = list[j].totalCost /\ i < j })

\* place of list[j] after the stable sort (a, b) => b[1] - a[1]
RankByTotal(list, j) ==
  1 + Cardinality({ i \in 1..Len(list) :
                      \/ list[i].totalCost > list[j].totalCost
                      \/ list[i].totalCost = list[j].totalCost /\ i < j })

\* serviceEntries
SortByTotalDesc(list) ==
  [r \in 1..Len(list) |-> list[CHOOSE j \in 1..Len(list) : RankByTotal(list, j) = r]]

\* Math.ceil(x / y) for whole x >= 0 and y > 0
CeilDiv(x, y) == (x + y - 1) \div y

\* Math.ceil(totalCost / 3 / step) * step for a step in dollars, in cents
MonthlyCeil(totalCost, step) == CeilDiv(totalCost, 3 * step * 100) * step * 100

\* monthlyCeil * (1 + Math.random() * buffer), buffer in tenths, r in thousandths;
\* monthlyCeil is a multiple of 10000 cents
BudgetAmount(monthlyCeil, buffer, r) == monthlyCeil + (monthlyCeil \div 10000) * buffer * r

\* 0.9 + Math.random() * 0.2  and  0.8 + Math.random() * 0.4, in 1/10000
Jitter(r) == 9000 + 2 * r
WideJitter(r) == 8000 + 4 * r

\* a * f / 10000, the product formed in two parts to stay within 32 bits
Scale(a, f) == (a * (f \div 100) + (a * (f % 100)) \div 100) \div 100

\* budgetAmount * progress * jitter, rounded to cents by toFixed(2)
Spend(budgetAmount, progress, jitter) ==
  CHOOSE s \in { x \div progress.den + (IF 2 * (x % progress.den) >= progress.den THEN 1 ELSE 0) :
                 x \in {Scale(budgetAmount, jitter) * progress.num} } : TRUE

\* Math.min(j / 5, progress)
CappedProgress(j, progress) ==
  IF j * progress.den < 5 * progress.num THEN [num |-> j, den |-> 5] ELSE progress

\* Math.ceil(Math.min(j / 5, currentDay / daysInMonth) * daysInMonth); in floating
\* point (15 / 29) * 29 exceeds 15
HistoryDay(j, currentDay, daysInMonth) ==
  IF j * daysInMonth < 5 * currentDay THEN CeilDiv(j * daysInMonth, 5)
  ELSE IF currentDay = 15 /\ daysInMonth = 29 THEN 16 ELSE currentDay

\* createdAt: startDate.getTime() - Math.random() * 30 days, formatted
CreatedAt(startDate, r) == formatDate(startDate - CeilDiv(r * 30 * HoursPerDay, 1000))

CREATORS == <<"John Doe", "Jane Smith", "Admin User">>
ACCOUNTS == <<"Development", "Production", "Testing", "Staging">>

\* list[Math.floor(Math.random() * list.length)]
Pick(list, r) == list[((r * Len(list)) \div 1000) + 1]

\* the entry of step j of a monthly history, and whether historyDate <= new Date()
MonthlyEntry(j, startDate, budgetAmount, currentDay, daysInMonth, k) ==
  CHOOSE h \in
    { [date |-> formatDate(historyDate),
       spend |-> Spend(budgetAmount, CappedProgress(j, [num |-> currentDay, den |-> daysInMonth]),
                       Jitter(MathRandom(k + j))),
       pushed |-> historyDate <= now] :
      historyDate \in {SetDate(startDate, HistoryDay(j, currentDay, daysInMonth))} } : TRUE

\* history entries as stored
Stored(entries) ==
  [n \in 1..Len(entries) |-> [date |-> entries[n].date, spend |-> entries[n].spend]]

\* the monthly budget of one of the provider's top services; k Math.random()
\* calls were made before it
MonthlyBudgetOn(provider, entry, budgetId, startDate, endDate, budgetAmount, k) ==
  LET daysInMonth == GetDate(endDate)
      currentDay  == GetDate(now)
      progress    == [num |-> currentDay, den |-> daysInMonth]
      steps       == [j \in 1..5 |->
                        MonthlyEntry(j, startDate, budgetAmount, currentDay, daysInMonth, k)]
  IN  [ id           |-> budgetId,
        period       |-> "monthly",
        provider     |-> provider,
        resource     |-> entry.service,
        resourceType |-> "service",
        amount       |-> budgetAmount,
        threshold    |-> 80,
        currentSpend |-> Spend(budgetAmount, progress, Jitter(MathRandom(k + 6))),
        startDate    |-> formatDate(startDate),
        endDate      |-> formatDate(endDate),
        createdAt    |-> CreatedAt(startDate, MathRandom(k + 7)),
        lastUpdated  |-> formatDate(now),
        createdBy    |-> Pick(CREATORS, MathRandom(k + 8)),
        status       |-> "active",
        history      |-> Stored(SelectSeq(steps, LAMBDA h : h.pushed)),
        forecast     |-> Spend(budgetAmount, [num |-> 1, den |-> 1], Jitter(MathRandom(k + 6))),
        favorite     |-> MathRandom(k + 9) > 700 ]

MonthlyBudget(provider, entry, budgetId, k) ==
  CHOOSE b \in
    { MonthlyBudgetOn(provider, entry, budgetId, startDate,
                      SetDate(SetMonth(startDate, GetMonth(startDate) + 1), 0),
                      BudgetAmount(MonthlyCeil(entry.totalCost, 1000), 2, MathRandom(k)), k) :
      startDate \in {SetDate(now, 1)} } : TRUE

RECURSIVE ProviderBudgets(_, _, _, _)
\* the loop over the provider's top services from place i (1-based) on;
\* acc holds the budgets pushed and the Math.random() calls made so far
ProviderBudgets(provider, serviceEntries, i, acc) ==
  IF i > 2 \/ i > Len(serviceEntries) THEN acc
  ELSE CHOOSE out \in
         { ProviderBudgets(provider, serviceEntries, i + 1,
                           [list |-> Append(acc.list, b), calls |-> acc.calls + 10]) :
           b \in {MonthlyBudget(provider, serviceEntries[i], Len(acc.list) + 1, acc.calls)} } : TRUE

RECURSIVE MonthlyBudgets(_, _)
\* CLOUD_PROVIDERS.forEach from provider p on
MonthlyBudgets(p, acc) ==
  IF p > Len(CLOUD_PROVIDERS) THEN acc
  ELSE CHOOSE out \in
         { MonthlyBudgets(p + 1, a) :
           a \in { ProviderBudgets(CLOUD_PROVIDERS[p], serviceEntries, 1, acc) :
                   serviceEntries \in {SortByTotalDesc(CostByService(CLOUD_PROVIDERS[p]))} } } : TRUE

\* Math.ceil(Math.min(j / 5, progress) * totalDays) for progress = passed / total
\* (both in hours); slip is the excess of the floating-point product at the cap
QuarterDays(j, passed, total, slip) ==
  IF j * total < 5 * passed THEN CeilDiv(j * total, 5 * HoursPerDay)
  ELSE CeilDiv(passed, HoursPerDay) + slip

RECURSIVE QuarterHistory(_, _, _, _, _, _, _)
\* the history loop of a quarterly budget from step j on; acc holds the entries
\* pushed and the Math.random() calls made so far
QuarterHistory(j, startDate, budgetAmount, passed, total, slip, acc) ==
  IF j > 5 THEN acc
  ELSE CHOOSE out \in
         { QuarterHistory(j + 1, startDate, budgetAmount, passed, total, slip,
             IF historyDate <= now
             THEN [list |-> Append(acc.list,
                              [date |-> formatDate(historyDate),
                               spend |-> Spend(budgetAmount,
                                               CappedProgress(j, [num |-> passed, den |-> total]),
                                               Jitter(MathRandom(acc.calls)))]),
                   calls |-> acc.calls + 1]
             ELSE acc) :
           historyDate \in {SetDate(startDate, GetDate(startDate)
                                                 + QuarterDays(j, passed, total, slip))} } : TRUE

\* Object.values(costByProviderService[provider]).reduce((sum, cost) => sum + cost, 0)
RECURSIVE SumTotals(_, _)
SumTotals(list, n) == IF n = 0 THEN 0 ELSE list[n].totalCost + SumTotals(list, n - 1)

TotalProviderCost(provider) ==
  CHOOSE t \in { SumTotals(list, Len(list)) : list \in {CostByService(provider)} } : TRUE

\* the quarterly budget built from its dates, amount and history
QuarterlyBudgetOn(provider, budgetId, startDate, endDate, budgetAmount, passed, total, h, k) ==
  LET isRegionBudget == MathRandom(k + 1) > 500
  IN  [ id           |-> budgetId,
        period       |-> "quarterly",
        provider     |-> provider,
        resource     |-> IF isRegionBudget
                         THEN Pick(AWS_REGIONS \o AZURE_REGIONS \o GCP_REGIONS, MathRandom(h.calls))
                         ELSE Pick(ACCOUNTS, MathRandom(h.calls)),
        resourceType |-> IF isRegionBudget THEN "region" ELSE "account",
        amount       |-> budgetAmount,
        threshold    |-> 80,
        currentSpend |-> Spend(budgetAmount, [num |-> passed, den |-> total],
                               WideJitter(MathRandom(k + 3))),
        startDate    |-> formatDate(startDate),
        endDate      |-> formatDate(endDate),
        createdAt    |-> CreatedAt(startDate, MathRandom(h.calls + 1)),
        lastUpdated  |-> formatDate(now),
        createdBy    |-> Pick(CREATORS, MathRandom(h.calls + 2)),
        status       |-> "active",
        history      |-> h.list,
        forecast     |-> IF 10 * passed > total
                         THEN Spend(budgetAmount, [num |-> 1, den |-> 1], WideJitter(MathRandom(k + 3)))
                         ELSE budgetAmount,
        favorite     |-> MathRandom(h.calls + 3) > 700 ]

\* the quarterly budget and the Math.random() calls made after it
QuarterlyBudgetFrom(provider, budgetId, startDate, endDate, budgetAmount, slip, k) ==
  CHOOSE b \in
    { [budget |-> QuarterlyBudgetOn(provider, budgetId, startDate, endDate, budgetAmount,
                                    passed, endDate - startDate, h, k),
       calls |-> h.calls + 4] :
      <<passed, h>> \in
        { <<p, QuarterHistory(1, startDate, budgetAmount, p, endDate - startDate, slip,
                              [list |-> <<>>, calls |-> k + 4])>> :
          p \in {Min(now - startDate, endDate - startDate)} } } : TRUE

QuarterlyBudget(budgetId, slip, k) ==
  CHOOSE b \in
    { QuarterlyBudgetFrom(provider, budgetId, startDate,
                          SetDate(SetMonth(startDate, GetMonth(startDate) + 3), 0),
                          BudgetAmount(MonthlyCeil(TotalProviderCost(provider), 5000), 3,
                                       MathRandom(k + 2)),
                          slip, k) :
      provider \in {Pick(CLOUD_PROVIDERS, MathRandom(k))},
      startDate \in { SetMonth(first, (GetMonth(first) \div 3) * 3) : first \in {SetDate(now, 1)} } } : TRUE

RECURSIVE QuarterlyBudgets(_, _, _)
\* the loop  for (let i = 0; i < 2; i++)  from i on
QuarterlyBudgets(i, slip, acc) ==
  IF i >= 2 THEN acc
  ELSE CHOOSE out \in
         { QuarterlyBudgets(i + 1, slip, [list |-> Append(acc.list, b.budget), calls |-> b.calls]) :
           b \in {QuarterlyBudget(Len(acc.list) + 1, slip, acc.calls)} } : TRUE

\* this.budgets after generateBudgets, and the Math.random() calls it made
Budgets(slip) == QuarterlyBudgets(0, slip, MonthlyBudgets(1, [list |-> <<>>, calls |-> 0]))

(***************************************************************************)
(* generateOptimizationData (part_002:733-908).  The under-utilised         *)
(* instances it collects from resources and utilizationData are not part    *)
(* of the stored value, which is drawn from Math.random() alone; amounts    *)
(* are in cents, the score in thousandths.                                  *)
(***************************************************************************)
\* base + Math.floor(Math.random() * n)
RandomSize(base, n, r) == base + (r * n) \div 1000

\* workloadProfiles: Math.random() calls 0..15, four per profile
WorkloadProfiles(k) ==
  << [cluster_id |-> 1, workload_type |-> "web", size |-> RandomSize(5, 10, MathRandom(k)),
      percentage |-> 35],
     [cluster_id |-> 2, workload_type |-> "batch", size |-> RandomSize(3, 8, MathRandom(k + 4)),
      percentage |-> 25],
     [cluster_id |-> 3, workload_type |-> "database", size |-> RandomSize(2, 5, MathRandom(k + 8)),
      percentage |-> 20],
     [cluster_id |-> 4, workload_type |-> "api", size |-> RandomSize(3, 7, MathRandom(k + 12)),
      percentage |-> 20] >>

\* monthly_savings of the recommendation of each cluster: calls 16..19
RecommendedSavings(k) ==
  << 50000 + MathRandom(k + 16) * 100,
     40000 + MathRandom(k + 17) * 60,
     30000 + MathRandom(k + 18) * 80,
     50000 + MathRandom(k + 19) * 100 >>

\* the stored optimizationData; 28 Math.random() calls in all
OptimizationData(k) ==
  LET savings               == RecommendedSavings(k)
      totalResourcesSavings == savings[1] + savings[2] + savings[3] + savings[4]
      reservationSavings    == 100000 + MathRandom(k + 20) * 200
      reservationCommitment == 400000 + MathRandom(k + 21) * 300
      savingsPlanSavings    == Scale(reservationSavings, 11000 + 2 * MathRandom(k + 22))
      savingsPlanCommitment == Scale(reservationCommitment, 9500 - MathRandom(k + 23))
  IN  [ optimization_score        |-> 65000 + MathRandom(k + 24) * 20,
        estimated_monthly_savings |-> totalResourcesSavings + Max(reservationSavings, savingsPlanSavings),
        workload_profiles         |-> WorkloadProfiles(k),
        monthly_savings           |-> savings,
        scaling_type              |-> IF MathRandom(k + 25) > 500 THEN "target_tracking" ELSE "predictive",
        min_instances             |-> RandomSize(2, 3, MathRandom(k + 26)),
        max_instances             |-> RandomSize(8, 8, MathRandom(k + 27)),
        recommendation            |-> IF savingsPlanSavings > reservationSavings
                                      THEN "Savings Plan" ELSE "Reserved Instances",
        reserved_instances        |-> [monthly_savings |-> reservationSavings,
                                       monthly_commitment |-> reservationCommitment],
        savings_plan              |-> [monthly_savings |-> savingsPlanSavings,
                                       monthly_commitment |-> savingsPlanCommitment] ]

(***************************************************************************)
(* generateForecastData (part_002:913-968).  A number is a record of kind   *)
(* "finite" with its value v, "NaN" or "Infinity" (v = 0).  Costs are in    *)
(* cents, trend factors in 1/TrendUnit, the unrounded forecast in           *)
(* hundredths of a cent, the uncertainty in 1/10000.                        *)
(***************************************************************************)
Finite(v) == [kind |-> "finite", v |-> v]
NaN == [kind |-> "NaN", v |-> 0]
Infinity == [kind |-> "Infinity", v |-> 0]

\* a <= b on numbers: false as soon as one of them is NaN
Leq(a, b) ==
  /\ a.kind # "NaN"
  /\ b.kind # "NaN"
  /\ \/ b.kind = "Infinity"
     \/ a.kind = "finite" /\ b.kind = "finite" /\ a.v <= b.v

\* mutant of NoForecastData: a lone entry is refused as well
NoForecastDataOrLone(data) == Len(data) <= 1

\* costData.length === 0
NoForecastData(data) == Len(data) = 0

\* place of data[j] after the stable sort by date, latest first
RankByDate(data, j) ==
  1 + Cardinality({ i \in 1..Len(data) :
                      \/ ParseDate(data[i].date) > ParseDate(data[j].date)
                      \/ data[i].date = data[j].date /\ i < j })

\* sortedData of generateForecastData
SortByDateDesc(data) ==
  [r \in 1..Len(data) |-> data[CHOOSE j \in 1..Len(data) : RankByDate(data, j) = r]]

\* sortedData.slice(0, 30)
RecentWindow == 30
RecentData(sortedData) == SubSeq(sortedData, 1, Min(RecentWindow, Len(sortedData)))

\* (lastDate.getTime() - oldestRecentDate.getTime()) / (24 * 60 * 60 * 1000)
DaysDifference(lastEntry, oldestEntry) ==
  (ParseDate(lastEntry.date) - ParseDate(oldestEntry.date)) \div HoursPerDay

TrendUnit == 10000

RECURSIVE PowN(_, _)
\* Math.pow(g, i) of a finite g for a whole i >= 0
PowN(g, i) ==
  IF i = 0 THEN TrendUnit
  ELSE CHOOSE p \in { (q * g) \div TrendUnit : q \in {PowN(g, i - 1)} } : TRUE

RECURSIVE RootBetween(_, _, _, _)
\* the largest r in lo..hi with r^d <= x * TrendUnit^d, r and x in 1/TrendUnit
RootBetween(x, d, lo, hi) ==
  IF lo >= hi THEN lo
  ELSE CHOOSE r \in { IF PowN(mid, d) <= x THEN RootBetween(x, d, mid, hi)
                                           ELSE RootBetween(x, d, lo, mid - 1) :
                      mid \in {(lo + hi + 1) \div 2} } : TRUE

\* Math.pow(trendFactor, 1 / daysDifference) for trendFactor = lastCost / oldestRecentCost:
\* the exponent is Infinity when the window spans no day
DailyTrend(lastCost, oldestRecentCost, daysDifference) ==
  IF daysDifference = 0
  THEN IF lastCost = oldestRecentCost THEN NaN
       ELSE IF lastCost > oldestRecentCost THEN Infinity ELSE Finite(0)
  ELSE CHOOSE g \in { IF daysDifference = 1 THEN Finite(trendFactor)
                      ELSE Finite(RootBetween(trendFactor, daysDifference, 0, Max(trendFactor, TrendUnit))) :
                      trendFactor \in {(lastCost * TrendUnit) \div oldestRecentCost} } : TRUE

\* lastCost * Math.pow(dailyTrend, i), in hundredths of a cent
TrendValue(lastCost, dailyTrend, i) ==
  IF dailyTrend.kind = "finite"
  THEN Finite((lastCost * PowN(dailyTrend.v, i)) \div (TrendUnit \div 100))
  ELSE dailyTrend

\* x * f for a positive factor f given in 1/unit (unit a multiple of 100);
\* the product is formed in two parts to stay within 32 bits
Times(x, f, unit) ==
  IF x.kind = "finite"
  THEN Finite((x.v * (f \div 100) + (x.v * (f % 100)) \div 100) \div (unit \div 100))
  ELSE x

\* 0.95 + Math.random() * 0.1, in thousandths
RandomFactor(k) == 950 + (MathRandom(k) * 100) \div 1000

\* parseFloat(x.toFixed(2)) of a value in hundredths of a cent: cents
ToFixed2(x) == IF x.kind = "finite" THEN Finite(RoundDiv(x.v, 100)) ELSE x

\* 0.05 + (i / days) * 0.15
Uncertainty(i, days) == 500 + (i * 1500) \div days

\* forecastDate.setDate(lastDate.getDate() + i); formatDate(forecastDate)
ForecastDate(lastDate, i) == formatDate(SetDate(lastDate, GetDate(lastDate) + i))

\* mutant of LastIndex: the loop stops one short
LastIndexShort(days) == days - 1

\* the last i of  for (let i = 1; i <= days; i++)
LastIndex(days) == days

\* forecastValue of step i
ForecastValue(lastCost, dailyTrend, i) ==
  Times(TrendValue(lastCost, dailyTrend, i), RandomFactor(i - 1), 1000)

\* the result built from lastEntry and the oldest entry of recentData
ForecastFrom(lastEntry, dailyTrend, days) ==
  [ forecast_dates  |-> [i \in 1..LastIndex(days) |-> ForecastDate(ParseDate(lastEntry.date), i)],
    forecast_values |-> [i \in 1..LastIndex(days) |->
                           ToFixed2(ForecastValue(lastEntry.daily_cost, dailyTrend, i))],
    lower_bound     |-> [i \in 1..LastIndex(days) |->
                           ToFixed2(Times(ForecastValue(lastEntry.daily_cost, dailyTrend, i),
                                          10000 - Uncertainty(i, days), 10000))],
    upper_bound     |-> [i \in 1..LastIndex(days) |->
                           ToFixed2(Times(ForecastValue(lastEntry.daily_cost, dailyTrend, i),
                                          10000 + Uncertainty(i, days), 10000))],
    confidence_level |-> 900 ]

\* the value generateForecastData(costData, days) returns for a non-empty costData
ForecastData(data, days) ==
  CHOOSE out \in
    { ForecastFrom(recentData[1],
                   DailyTrend(recentData[1].daily_cost, recentData[Len(recentData)].daily_cost,
                              DaysDifference(recentData[1], recentData[Len(recentData)])),
                   days) :
      recentData \in {RecentData(SortByDateDesc(data))} } : TRUE

(***************************************************************************)
(* getCostByProvider and getCostByService (part_002:1000-1025).  The sums   *)
(* are sums of JavaScript numbers, which are IEEE 754 doubles.  A double    *)
(* between 2^-7 and 2^14 is a whole multiple of 2^-60 with at most 53       *)
(* significant bits; it is held as that multiple, in five digits of base    *)
(* 2^15, lowest digit first.  A Record<string, number> is the sequence of   *)
(* its keys and values in insertion order.                                  *)
(***************************************************************************)
RECURSIVE TwoTo(_)
TwoTo(k) == IF k = 0 THEN 1 ELSE 2 * TwoTo(k - 1)

RECURSIVE BitLength(_)
BitLength(x) == IF x = 0 THEN 0 ELSE 1 + BitLength(x \div 2)

\* the number 0
Zero == <<0, 0, 0, 0, 0>>

\* index of the highest bit set in a number other than 0
TopBit(n) ==
  LET k == CHOOSE i \in 1..Len(n) : n[i] # 0 /\ \A j \in (i + 1)..Len(n) : n[j] = 0
  IN  15 * (k - 1) + BitLength(n[k]) - 1

RECURSIVE AddDigits(_, _, _, _)
\* exact sum of two multiples of 2^-60, digit by digit with carry
AddDigits(a, b, i, carry) ==
  IF i > Len(a) THEN <<>>
  ELSE <<(a[i] + b[i] + carry) % 32768>> \o AddDigits(a, b, i + 1, (a[i] + b[i] + carry) \div 32768)

\* round to nearest, ties to even, to 53 significant bits; `sticky` tells that
\* the exact value lies above n by less than 2^-60
RoundToDouble(n, sticky) ==
  IF n = Zero \/ TopBit(n) < 53 THEN n
  ELSE LET unit == TwoTo(TopBit(n) - 52)
           low  == n[1] % unit
           even == (n[1] \div unit) % 2 = 0
           down == [n EXCEPT ![1] = n[1] - low]
       IN  IF 2 * low > unit \/ (2 * low = unit /\ (sticky \/ ~even))
           THEN AddDigits(down, <<unit, 0, 0, 0, 0>>, 1, 0)
           ELSE down

\* a + b on doubles
DoubleAdd(a, b) == RoundToDouble(AddDigits(a, b, 1, 0), FALSE)

RECURSIVE RemainderFrom(_, _, _)
\* remainder of the digits i and above divided by d
RemainderFrom(n, d, i) ==
  IF i > Len(n) THEN 0 ELSE (RemainderFrom(n, d, i + 1) * 32768 + n[i]) % d

\* the double nearest to cents / 100: parseFloat of an amount printed with two
\* decimals
DoubleOfCents(cents) ==
  LET n == <<0, 0, 0, 0, cents>>
      quotient == [i \in 1..5 |-> (RemainderFrom(n, 100, i + 1) * 32768 + n[i]) \div 100]
  IN  RoundToDouble(quotient, RemainderFrom(n, 100, 1) # 0)

RECURSIVE TimesDigits(_, _, _, _)
\* the digits of n * k
TimesDigits(n, k, i, carry) ==
  IF i > Len(n) THEN <<carry>>
  ELSE <<(n[i] * k + carry) % 32768>> \o TimesDigits(n, k, i + 1, (n[i] * k + carry) \div 32768)

\* Math.round(x * 100) of a double below 2^8: the amount in whole cents
CentsOfDouble(x) ==
  LET scaled == AddDigits(TimesDigits(x, 100, 1, 0), <<0, 0, 0, 16384, 0, 0>>, 1, 0)
  IN  scaled[5] + 32768 * scaled[6]

RECURSIVE SumDaily(_, _)
\* entries.reduce((sum, entry) => sum + entry.daily_cost, 0) over the first n
SumDaily(entries, n) ==
  IF n = 0 THEN Zero
  ELSE DoubleAdd(SumDaily(entries, n - 1), DoubleOfCents(entries[n].daily_cost))

\* this.costData.filter(entry => entry.cloud_provider === provider)
ProviderCosts(data, provider) == SelectSeq(data, LAMBDA entry : entry.cloud_provider = provider)

\* only the entries of the provider that first reports the service
ServiceCostsOfFirstProvider(data, service) ==
  SelectSeq(data, LAMBDA entry :
    /\ entry.service = service
    /\ entry.cloud_provider = data[FirstOf({j \in 1..Len(data) : data[j].service = service})].cloud_provider)

\* this.costData.filter(entry => entry.service === service)
ServiceCosts(data, service) == SelectSeq(data, LAMBDA entry : entry.service = service)

\* getCostByProvider(): one key for each provider, in the order of CLOUD_PROVIDERS
CostByProvider(data) ==
  [ p \in 1..Len(CLOUD_PROVIDERS) |->
      CHOOSE row \in { [key |-> CLOUD_PROVIDERS[p], value |-> SumDaily(costs, Len(costs))] :
                         costs \in {ProviderCosts(data, CLOUD_PROVIDERS[p])} } : TRUE ]

RECURSIVE ServiceNames(_, _)
\* new Set(this.costData.map(entry => entry.service)): the service names of the
\* first n entries in the order they are first met
ServiceNames(data, n) ==
  IF n = 0 THEN <<>>
  ELSE IF \E j \in 1..(n - 1) : data[j].service = data[n].service
       THEN ServiceNames(data, n - 1)
       ELSE Append(ServiceNames(data, n - 1), data[n].service)

\* getCostByService(): one key for each service name met in the cost data
CostByServiceName(data) ==
  LET services == ServiceNames(data, Len(data))
  IN  [ s \in 1..Len(services) |->
          CHOOSE row \in { [key |-> services[s], value |-> SumDaily(costs, Len(costs))] :
                             costs \in {ServiceCosts(data, services[s])} } : TRUE ]

RECURSIVE SumValues(_, _)
\* Object.values(record).reduce((sum, cost) => sum + cost, 0) over the first n keys
SumValues(record, n) ==
  IF n = 0 THEN Zero ELSE DoubleAdd(SumValues(record, n - 1), record[n].value)

(***************************************************************************)
(* getCostTimeSeries (part_002:1027-1108), called at the instant `now`.     *)
(***************************************************************************)
\* startDate = new Date(endDate); startDate.setDate(startDate.getDate() - days)
StartDate(endDate, days) == SetDate(endDate, GetDate(endDate) - days)

\* entryDate >= startDate && entryDate <= endDate
InPeriod(entry, startDate, endDate) ==
  ParseDate(entry.date) >= startDate /\ ParseDate(entry.date) <= endDate

\* filteredData
FilteredData(data, startDate, endDate) ==
  SelectSeq(data, LAMBDA entry : InPeriod(entry, startDate, endDate))

RECURSIVE DateStrings(_, _)
\* the while loop that fills dateStrings, from currentDate on
DateStrings(currentDate, endDate) ==
  IF currentDate > endDate THEN <<>>
  ELSE CHOOSE out \in
         { <<formatDate(c)>> \o DateStrings(SetDate(c, GetDate(c) + 1), endDate) :
           c \in {currentDate} } : TRUE

\* Array.from(services): the services of filteredData in the order first met
ServicesMet(filteredData) ==
  LET first == SelectSeq([i \in 1..Len(filteredData) |-> i],
                         LAMBDA i : \A j \in 1..(i - 1) : filteredData[j].service # filteredData[i].service)
  IN  [n \in 1..Len(first) |-> filteredData[first[n]].service]

\* the names of the series of a grouping
SeriesNames(groupBy, filteredData) ==
  IF groupBy = "provider" THEN CLOUD_PROVIDERS
  ELSE IF groupBy = "service" THEN ServicesMet(filteredData) ELSE <<"Total Cost">>

\* the filter of one series on one date
InSeries(entry, groupBy, name, date) ==
  /\ entry.date = date
  /\ groupBy = "provider" => entry.cloud_provider = name
  /\ groupBy = "service" => entry.service = name

\* dateEntries.reduce(...) of one series on one date
SeriesValue(filteredData, groupBy, name, date) ==
  CHOOSE v \in { SumCost(dateEntries, Len(dateEntries)) :
                 dateEntries \in {SelectSeq(filteredData,
                                            LAMBDA entry : InSeries(entry, groupBy, name, date))} } : TRUE

\* the result built from filteredData and dateStrings
CostTimeSeriesOf(filteredData, dateStrings, names, groupBy) ==
  [ timestamps |-> dateStrings,
    series     |-> [n \in 1..Len(names) |->
                     [name |-> names[n],
                      data |-> [k \in 1..Len(dateStrings) |->
                                  SeriesValue(filteredData, groupBy, names[n], dateStrings[k])]]] ]

\* getCostTimeSeries(days, groupBy) over this.costData
CostTimeSeries(data, days, groupBy) ==
  CHOOSE out \in
    { CostTimeSeriesOf(filteredData, DateStrings(startDate, now),
                       SeriesNames(groupBy, filteredData), groupBy) :
      <<startDate, filteredData>> \in
        { <<s, FilteredData(data, s, now)>> : s \in {StartDate(now, days)} } } : TRUE

(***************************************************************************)
(* checkBudgetExceed (src/frontend/src/services/forecastService.ts:118-160).*)
(* An absent (null) argument or result is the empty sequence, a present one *)
(* a sequence of one value.                                                 *)
(***************************************************************************)
\* Array.prototype.slice(0, end): a negative end counts from the end of the list
SliceTo(list, end) ==
  IF end < 0 THEN SubSeq(list, 1, Max(Len(list) + end, 0))
  ELSE SubSeq(list, 1, Min(end, Len(list)))

\* Math.ceil(remainingDays / (1000 * 3600 * 24)) at the instant t
RemainingDaysCount(budget, t) == CeilDiv(ParseDate(budget.endDate) - t, HoursPerDay)


\* relevantForecast
RelevantForecast(budget, forecast, t) ==
  SliceTo(forecast, Min(RemainingDaysCount(budget, t), Len(forecast)))

RECURSIVE SumPredicted(_, _)
\* the sum of predicted_cost over the first n points
SumPredicted(points, n) ==
  IF n = 0 THEN 0 ELSE points[n].predicted_cost + SumPredicted(points, n - 1)


\* the first i with cumulativeSpend >= remainingBudget, 0 when the loop ends without one
ExceedIndex(relevantForecast, remainingBudget) ==
  CHOOSE x \in { IF hits = {} THEN 0 ELSE CHOOSE i \in hits : \A m \in hits : i <= m :
                 hits \in { {i \in 1..Len(relevantForecast) :
                               SumPredicted(relevantForecast, i) >= remainingBudget} } } : TRUE

\* the value returned for a present budget and a non-empty forecast
BudgetForecastOf(budget, relevantForecast, t) ==
  LET forecastedTotalSpend == budget.currentSpend + SumPredicted(relevantForecast, Len(relevantForecast))
      willExceed           == forecastedTotalSpend > budget.amount
      exceedAt             == ExceedIndex(relevantForecast, budget.amount - budget.currentSpend)
  IN  [ budgetId            |-> budget.id,
        currentAmount       |-> budget.currentSpend,
        forecastedAmount    |-> forecastedTotalSpend,
        forecastDate        |-> t,
        percentageOfBudget  |-> [num |-> forecastedTotalSpend * 100, den |-> budget.amount],
        willExceed          |-> willExceed,
        projectedExceedDate |-> IF willExceed /\ exceedAt # 0
                                THEN <<ParseDate(relevantForecast[exceedAt].date)>> ELSE <<>>,
        confidenceLevel     |-> IF willExceed THEN "high" ELSE "medium" ]

\* checkBudgetExceed(budget, forecast) at the instant t
CheckBudgetExceed(budget, forecast, t) ==
  IF budget = <<>> \/ forecast = <<>> \/ forecast[1] = <<>> THEN <<>>
  ELSE << BudgetForecastOf(budget[1], RelevantForecast(budget[1], forecast[1], t), t) >>

(***************************************************************************)
(* The environment the constructor runs in.                                *)
(***************************************************************************)
\* hours since the epoch of a UTC date and hour
Instant(year, month, date, hour) == MakeDay(year, month, date) * HoursPerDay + hour

\* zones: UTC; New York around the end of DST on 2026-11-01 06:00Z;
\* Berlin around the start of DST on 2027-03-28 01:00Z
Zones ==
  { [name |-> "UTC", before |-> 0, after |-> 0, at |-> 0],
    [name |-> "America/New_York", before |-> 0 - 4, after |-> 0 - 5, at |-> Instant(2026, 10, 1, 6)],
    [name |-> "Europe/Berlin", before |-> 1, after |-> 2, at |-> Instant(2027, 2, 28, 1)] }

\* instants at which the service is constructed
Nows ==
  { Instant(2026, 10, 3, 15), Instant(2026, 10, 4, 0), Instant(2027, 0, 1, 12), Instant(2027, 2, 30, 23) }

\* values of Math.random(), in thousandths
RandVals == {0, 500, 999}

Tapes == [1..TapeLen -> RandVals]

\* values of the seeded generator's first random() call, times 233280
Seeds == {12345, 31337, 100000, 200000}

NoCall == [op |-> "none"]

\* no React component is mounted
NoComponent == [kind |-> "none"]

(***************************************************************************)
(* The constructor: initializeData runs the stages in order                *)
(* (part_002:202-216).                                                      *)
(***************************************************************************)
Init ==
  /\ component = NoComponent
  /\ timers = <<>>
  /\ now \in Nows
  /\ tz \in Zones
  /\ tape \in Tapes
  /\ rpos = 0
  /\ uuids = 0
  /\ seed \in Seeds
  /\ stage = "new"
  /\ resources = <<>>
  /\ costData = <<>>
  /\ utilizationData = <<>>
  /\ anomalyData = <<>>
  /\ budgets = <<>>
  /\ optimizationData = <<>>
  /\ call = NoCall

generateResources ==
  /\ stage = "new"
  /\ \E g \in {GenerateResourcesFrom(0, ResourceCount, [list |-> <<>>, next |-> seed, calls |-> 0])} :
       /\ resources' = g.list
       /\ rpos' = (rpos + g.calls) % TapeLen
  /\ stage' = "resources"
  /\ UNCHANGED <<component, timers, now, tz, tape, uuids, seed, costData, utilizationData, anomalyData, budgets, optimizationData, call>>

generateCostData ==
  /\ stage = "resources"
  /\ \E g \in {CostDataFrom(1, CostDays, [list |-> <<>>, calls |-> 0])} :
       /\ costData' = g.list
       /\ rpos' = (rpos + g.calls) % TapeLen
  /\ stage' = "costData"
  /\ UNCHANGED <<component, timers, now, tz, tape, uuids, seed, resources, utilizationData, anomalyData, budgets, optimizationData, call>>

generateUtilizationData ==
  /\ stage = "costData"
  /\ utilizationData' = UtilizationFrom(1, UtilDays)
  /\ rpos' = (rpos + UtilizationCalls(Len(resources) + 1, UtilDays)) % TapeLen
  /\ stage' = "utilization"
  /\ UNCHANGED <<component, timers, now, tz, tape, uuids, seed, resources, costData, anomalyData, budgets, optimizationData, call>>

\* the body of generateAnomalies(count)
AnomalyRun(count) ==
  \E pushed \in {PushedAnomalies(costData, count)} :
    /\ anomalyData' = Slice(pushed, count)
    /\ costData' = SortedCopy(costData)
    /\ rpos' = (rpos + Len(pushed)) % TapeLen
    /\ uuids' = uuids + Len(pushed)

\* a scan that could be run again on the constructed service
generateAnomaliesAgain ==
  /\ stage \in {"utilization", "constructed"}
  /\ AnomalyRun(AnomalyCount)
  /\ stage' = "anomalies"
  /\ UNCHANGED <<component, timers, now, tz, tape, seed, resources, utilizationData, budgets, optimizationData, call>>

generateAnomalies ==
  /\ stage = "utilization"
  /\ AnomalyRun(AnomalyCount)
  /\ stage' = "anomalies"
  /\ UNCHANGED <<component, timers, now, tz, tape, seed, resources, utilizationData, budgets, optimizationData, call>>

\* the floating-point product at the cap of a quarterly history may exceed the
\* whole number of days passed: both outcomes are taken
generateBudgets ==
  /\ stage = "anomalies"
  /\ \E slip \in {0, 1} :
       \E b \in {Budgets(slip)} :
         /\ budgets' = b.list
         /\ rpos' = (rpos + b.calls) % TapeLen
  /\ stage' = "budgets"
  /\ UNCHANGED <<component, timers, now, tz, tape, uuids, seed, resources, costData, utilizationData, anomalyData,
                 optimizationData, call>>

generateOptimizationData ==
  /\ stage = "budgets"
  /\ optimizationData' = <<OptimizationData(0)>>
  /\ rpos' = (rpos + 28) % TapeLen
  /\ stage' = "constructed"
  /\ UNCHANGED <<component, timers, now, tz, tape, uuids, seed, resources, costData, utilizationData, anomalyData,
                 budgets, call>>

\* windows asked of getCostTimeSeries
SeriesWindows == {0, 1, CostDays}

getCostTimeSeries ==
  /\ stage = "constructed"
  /\ call = NoCall
  /\ \E days \in SeriesWindows, groupBy \in {"provider", "service", "daily"} :
       call' = [op |-> "getCostTimeSeries", days |-> days, groupBy |-> groupBy,
                result |-> CostTimeSeries(costData, days, groupBy)]
  /\ UNCHANGED <<component, timers, now, tz, tape, rpos, uuids, seed, stage, resources, costData, utilizationData,
                 anomalyData, budgets, optimizationData>>

Next ==
  \/ generateResources
  \/ generateCostData
  \/ generateUtilizationData
  \/ generateAnomalies
  \/ generateBudgets
  \/ generateOptimizationData
  \/ getCostTimeSeries

Spec == Init /\ [][Next]_vars

(***************************************************************************)
(* The anomaly extractor on its own: generateAnomalies(count) run over an   *)
(* arbitrary cost series, and run again over the same series.              *)
(***************************************************************************)
\* dates around the end of DST in New York
SeriesDates == { MakeDay(2026, 9, 31), MakeDay(2026, 10, 1), MakeDay(2026, 10, 2) }

\* daily costs in cents: 1000.00, 1250.40 (25.04 % above), 1300.00 (30 % above)
SeriesCosts == {100000, 125040, 130000}

SeriesEntry(d, c, provider, service) ==
  [date |-> d, daily_cost |-> c, service |-> service, cloud_provider |-> provider]

\* one pair at every cost, a second pair at the lowest cost, and one day at
\* 2000.40, 100.04 % above 1000.00
SeriesEntries ==
  { SeriesEntry(d, c, "AWS", "EC2") : d \in SeriesDates, c \in SeriesCosts }
    \cup { SeriesEntry(d, 100000, "GCP", "CDN") : d \in SeriesDates }
    \cup { SeriesEntry(MakeDay(2026, 10, 1), 200040, "AWS", "EC2") }

\* the cost series of length at most MaxEntries
SeriesInputs == UNION { [1..n -> SeriesEntries] : n \in 0..MaxEntries }

\* a tape whose values differ from call to call
MixedTape == [i \in 1..TapeLen |-> IF i % 3 = 1 THEN 0 ELSE IF i % 3 = 2 THEN 500 ELSE 999]

InitAnomaly ==
  /\ component = NoComponent
  /\ timers = <<>>
  /\ now = Instant(2026, 10, 3, 15)
  /\ tz \in {z \in Zones : z.name \in {"UTC", "America/New_York"}}
  /\ tape = MixedTape
  /\ rpos = 0
  /\ uuids = 0
  /\ seed = 0
  /\ stage = "constructed"
  /\ resources = <<>>
  /\ costData \in SeriesInputs
  /\ utilizationData = <<>>
  /\ anomalyData = <<>>
  /\ budgets = <<>>
  /\ optimizationData = <<>>
  /\ \E count \in 1..AnomalyCount :
       call = [op |-> "generateAnomalies", count |-> count, runs |-> 0,
               input |-> costData, before |-> <<>>]

\* generateAnomalies(count) over the cached series
ExtractAnomalies ==
  /\ call.op = "generateAnomalies"
  /\ call.runs < MaxRuns
  /\ AnomalyRun(call.count)
  /\ call' = [call EXCEPT !.runs = @ + 1, !.before = anomalyData]
  /\ UNCHANGED <<component, timers, now, tz, tape, seed, stage, resources, utilizationData, budgets, optimizationData>>

NextAnomaly == ExtractAnomalies

SpecAnomaly == InitAnomaly /\ [][NextAnomaly]_vars

(***************************************************************************)
(* Resource generation on its own: generateResources(count) run, and run    *)
(* again with the generator seeded as before.                               *)
(***************************************************************************)
InitResources ==
  /\ component = NoComponent
  /\ timers = <<>>
  /\ now = Instant(2026, 10, 3, 15)
  /\ tz \in Zones
  /\ tape \in Tapes
  /\ rpos = 0
  /\ uuids = 0
  /\ seed \in Seeds
  /\ stage = "new"
  /\ resources = <<>>
  /\ costData = <<>>
  /\ utilizationData = <<>>
  /\ anomalyData = <<>>
  /\ budgets = <<>>
  /\ optimizationData = <<>>
  /\ \E count \in 1..ResourceCount :
       call = [op |-> "generateResources", count |-> count, runs |-> 0, before |-> <<>>]

\* generateResources(count) with seededRandom(seed); Math.random() goes on from
\* where the run before left it
RegenerateResources ==
  /\ call.op = "generateResources"
  /\ call.runs < MaxRuns
  /\ \E g \in {GenerateResourcesFrom(0, call.count, [list |-> <<>>, next |-> seed, calls |-> 0])} :
       /\ resources' = g.list
       /\ rpos' = (rpos + g.calls) % TapeLen
  /\ call' = [call EXCEPT !.runs = @ + 1, !.before = resources]
  /\ UNCHANGED <<component, timers, now, tz, tape, uuids, seed, stage, costData, utilizationData, anomalyData, budgets,
                 optimizationData>>

NextResources == RegenerateResources

SpecResources == InitResources /\ [][NextResources]_vars

(***************************************************************************)
(* Budget generation on its own: generateBudgets run over a cost history    *)
(* in which the providers have one, two or three services with entries.    *)
(***************************************************************************)
\* daily costs in cents: 1000.00, 2000.00 and 3000.00
BudgetCosts == {100000, 200000, 300000}

\* entries of three AWS services
AwsEntries ==
  { SeriesEntry(MakeDay(2026, 10, 1), c, "AWS", service) :
      c \in BudgetCosts, service \in {"EC2", "S3", "RDS"} }

\* one Azure service and two GCP services with entries
OtherEntries ==
  << SeriesEntry(MakeDay(2026, 10, 1), 100000, "Azure", "Storage"),
     SeriesEntry(MakeDay(2026, 10, 1), 100000, "GCP", "Cloud SQL"),
     SeriesEntry(MakeDay(2026, 10, 1), 200000, "GCP", "CDN") >>

\* cost histories with at most MaxEntries AWS entries
BudgetInputs == { OtherEntries \o aws : aws \in UNION { [1..n -> AwsEntries] : n \in 1..MaxEntries } }

InitBudgets ==
  /\ component = NoComponent
  /\ timers = <<>>
  /\ now = Instant(2026, 10, 3, 15)
  /\ tz \in Zones
  /\ tape = MixedTape
  /\ rpos = 0
  /\ uuids = 0
  /\ seed = 0
  /\ stage = "anomalies"
  /\ resources = <<>>
  /\ costData \in BudgetInputs
  /\ utilizationData = <<>>
  /\ anomalyData = <<>>
  /\ budgets = <<>>
  /\ optimizationData = <<>>
  /\ call = NoCall

NextBudgets == generateBudgets

SpecBudgets == InitBudgets /\ [][NextBudgets]_vars

(***************************************************************************)
(* Utilization on its own: generateUtilizationData run over resources of    *)
(* every kind, on a working day and on a Saturday.                          *)
(***************************************************************************)
\* a resource of the given service, size and status
SampledResource(service, size, status) ==
  [ id            |-> [n |-> 0, r |-> 0],
    name          |-> [n |-> 0, r |-> 0],
    type          |-> service,
    provider      |-> "AWS",
    region        |-> "us-east-1",
    status        |-> status,
    size          |-> size,
    monthly_cost  |-> 5000,
    creation_date |-> MakeDay(2026, 9, 1),
    last_modified |-> MakeDay(2026, 9, 2) ]

\* a small instance, a bucket, a database and an instance that is not running
SampledResources ==
  { SampledResource("EC2", "t3.micro", "running"),
    SampledResource("S3", "Standard", "running"),
    SampledResource("RDS", "db.t3.small", "running"),
    SampledResource("EC2", "m5.xlarge", "stopped") }

\* the resource lists of one or two resources, ids numbered in order
ResourceLists ==
  { [n \in 1..Len(list) |-> [list[n] EXCEPT !.id = [n |-> n, r |-> 0]]] :
      list \in UNION { [1..n -> SampledResources] : n \in 1..2 } }

InitUtilization ==
  /\ component = NoComponent
  /\ timers = <<>>
  /\ now \in {Instant(2026, 10, 3, 15), Instant(2026, 10, 7, 15)}
  /\ tz \in Zones
  /\ tape \in Tapes
  /\ rpos = 0
  /\ uuids = 0
  /\ seed = 0
  /\ stage = "costData"
  /\ resources \in ResourceLists
  /\ costData = <<>>
  /\ utilizationData = <<>>
  /\ anomalyData = <<>>
  /\ budgets = <<>>
  /\ optimizationData = <<>>
  /\ call = NoCall

NextUtilization == generateUtilizationData

SpecUtilization == InitUtilization /\ [][NextUtilization]_vars

(***************************************************************************)
(* The forecast on its own: generateForecastData(costData, days) called     *)
(* with an arbitrary cost series.                                           *)
(***************************************************************************)
\* farthest forecast horizon asked for
MaxDays == 3

\* daily costs in cents: 10.00, 12.10, 16.00
ForecastCosts == {1000, 1210, 1600}

ForecastEntries == { SeriesEntry(d, c, "AWS", "EC2") : d \in SeriesDates, c \in ForecastCosts }

\* series of RecentWindow + 1 entries: an old one, then RecentWindow entries of one later date
LongSeries ==
  { [i \in 1..RecentWindow + 1 |-> IF i = 1 THEN old ELSE IF i = 2 THEN a ELSE b] :
      <<old, a, b>> \in { t \in ForecastEntries \X ForecastEntries \X ForecastEntries :
                            t[1].date < t[2].date /\ t[2].date = t[3].date } }

ForecastInputs == UNION { [1..n -> ForecastEntries] : n \in 0..MaxEntries } \cup LongSeries

\* tapes that repeat one value, and the mixed one
ForecastTapes == { [i \in 1..TapeLen |-> v] : v \in RandVals } \cup {MixedTape}

InitForecast ==
  /\ component = NoComponent
  /\ timers = <<>>
  /\ now = Instant(2026, 10, 3, 15)
  /\ tz \in {z \in Zones : z.name \in {"UTC", "America/New_York"}}
  /\ tape \in ForecastTapes
  /\ rpos = 0
  /\ uuids = 0
  /\ seed = 0
  /\ stage = "constructed"
  /\ resources = <<>>
  /\ costData \in ForecastInputs
  /\ utilizationData = <<>>
  /\ anomalyData = <<>>
  /\ budgets = <<>>
  /\ optimizationData = <<>>
  /\ \E days \in 0..MaxDays :
       call = [op |-> "generateForecastData", days |-> days, state |-> "called",
               error |-> "", result |-> <<>>]

\* generateForecastData(costData, days): throws or returns
generateForecastData ==
  /\ call.op = "generateForecastData"
  /\ call.state = "called"
  /\ IF NoForecastData(costData)
     THEN /\ call' = [call EXCEPT !.state = "threw",
                                  !.error = "No cost data available for forecasting"]
          /\ rpos' = rpos
     ELSE \E result \in {ForecastData(costData, call.days)} :
            /\ call' = [call EXCEPT !.state = "returned", !.result = <<result>>]
            /\ rpos' = (rpos + Len(result.forecast_values)) % TapeLen
  /\ UNCHANGED <<component, timers, now, tz, tape, uuids, seed, stage, resources, costData, utilizationData, anomalyData, budgets, optimizationData>>

NextForecast == generateForecastData

SpecForecast == InitForecast /\ [][NextForecast]_vars

(***************************************************************************)
(* The constructed service behind the mock-mode API (part_003:73-308): any  *)
(* sequence of calls to the accessors and to the API functions.  The caches *)
(* are those the stages build from an arbitrary cost history.               *)
(***************************************************************************)
\* entries of one AWS service and of the service name Azure and GCP share
QueryEntries ==
  { SeriesEntry(MakeDay(2026, 10, 2), 10, "AWS", "EC2"),
    SeriesEntry(MakeDay(2026, 10, 2), 20, "Azure", "CDN"),
    SeriesEntry(MakeDay(2026, 10, 2), 30, "GCP", "CDN") }

\* the cost histories of at most MaxEntries entries
QuerySeries == UNION { [1..n -> QueryEntries] : n \in 0..MaxEntries }

\* the budget data handed to createBudget and updateBudget
BudgetData == [name |-> "Team budget", amount |-> 50000]

InitQuery ==
  /\ component = NoComponent
  /\ timers = <<>>
  /\ now = Instant(2026, 10, 3, 15)
  /\ tz \in {z \in Zones : z.name = "UTC"}
  /\ tape = MixedTape
  /\ rpos = 0
  /\ uuids = 0
  /\ seed = 0
  /\ stage = "constructed"
  /\ resources = <<[SampledResource("EC2", "t3.micro", "running") EXCEPT !.id = [n |-> 1, r |-> 0]]>>
  /\ costData \in QuerySeries
  /\ utilizationData = UtilizationFrom(1, UtilDays)
  /\ anomalyData = Slice(PushedAnomalies(costData, AnomalyCount), AnomalyCount)
  /\ budgets = Budgets(0).list
  /\ optimizationData = <<OptimizationData(0)>>
  /\ call = [op |-> "constructor", result |-> <<>>, budgetCall |-> "none"]

\* a call returns `result`; `budgetCall` is the last budget operation requested
Returns(op, result, budgetCall) ==
  /\ stage = "constructed"
  /\ call' = [op |-> op, result |-> result, budgetCall |-> budgetCall]
  /\ UNCHANGED <<component, timers, now, tz, tape, uuids, seed, stage, resources, costData, utilizationData,
                 anomalyData, budgets, optimizationData>>

\* getResources, getCostData, getUtilizationData, getAnomalies, getBudgets and
\* getOptimizationData return the cached value
getCached ==
  /\ \E accessor \in {"getResources", "getCostData", "getUtilizationData", "getAnomalies",
                       "getBudgets", "getOptimizationData"} :
       Returns(accessor,
               CASE accessor = "getResources" -> resources
                 [] accessor = "getCostData" -> costData
                 [] accessor = "getUtilizationData" -> utilizationData
                 [] accessor = "getAnomalies" -> anomalyData
                 [] accessor = "getBudgets" -> budgets
                 [] OTHER -> optimizationData,
               call.budgetCall)
  /\ rpos' = rpos

\* api getCostAnalysis: getCostTimeSeries(30, 'provider'), getCostByProvider
\* and getCostByService
getCostAnalysis ==
  /\ Returns("getCostAnalysis",
             [total_cost       |-> SumValues(CostByProvider(costData), Len(CLOUD_PROVIDERS)),
              cost_by_provider |-> CostByProvider(costData),
              cost_by_service  |-> CostByServiceName(costData),
              time_series      |-> CostTimeSeries(costData, 30, "provider")],
             call.budgetCall)
  /\ rpos' = rpos

\* api getForecast(costData, days) over the cached cost data
getForecast ==
  \E days \in {1, MaxDays} :
    IF NoForecastData(costData)
    THEN /\ Returns("getForecast", "No cost data available for forecasting", call.budgetCall)
         /\ rpos' = rpos
    ELSE \E result \in {ForecastData(costData, days)} :
           /\ Returns("getForecast", result, call.budgetCall)
           /\ rpos' = (rpos + Len(result.forecast_values)) % TapeLen

\* a budget operation that writes through to the service
createBudgetStored ==
  /\ stage = "constructed"
  /\ Len(budgets) < 12
  /\ budgets' = Append(budgets, [id |-> now, data |-> BudgetData, createdAt |-> now, status |-> "active"])
  /\ call' = [op |-> "createBudget", result |-> budgets'[Len(budgets')],
              budgetCall |-> "createBudget"]
  /\ UNCHANGED <<component, timers, now, tz, tape, rpos, uuids, seed, stage, resources, costData, utilizationData,
                 anomalyData, optimizationData>>

\* api createBudget(budgetData): the budget is returned, not stored
createBudget ==
  /\ Returns("createBudget",
             [id |-> now, data |-> BudgetData, createdAt |-> now, status |-> "active"],
             "createBudget")
  /\ rpos' = rpos

\* api updateBudget(budgetId, budgetData)
updateBudget ==
  /\ \E budgetId \in {1, Len(budgets)} :
       Returns("updateBudget", [id |-> budgetId, data |-> BudgetData, lastUpdated |-> now],
               "updateBudget")
  /\ rpos' = rpos

\* api deleteBudget(budgetId)
deleteBudget ==
  /\ Returns("deleteBudget", [success |-> TRUE], "deleteBudget")
  /\ rpos' = rpos

NextQuery ==
  \/ getCached
  \/ getCostAnalysis
  \/ getForecast
  \/ createBudget
  \/ updateBudget
  \/ deleteBudget

SpecQuery == InitQuery /\ [][NextQuery]_vars

(***************************************************************************)
(* setTimeout (hooks/useMockData.ts:67-70, pages/BudgetManagement.tsx:456,  *)
(* 690, 717).  The pending callbacks are kept in the order they will run:   *)
(* those of one effect are set at the same instant with different delays,   *)
(* those of the page at different instants with the same delay.            *)
(***************************************************************************)
SetTimeout(queue, timer) ==
  LET ahead == Cardinality({i \in 1..Len(queue) : queue[i].delay <= timer.delay})
  IN  SubSeq(queue, 1, ahead) \o <<timer>> \o SubSeq(queue, ahead + 1, Len(queue))

(***************************************************************************)
(* useMockData (hooks/useMockData.ts:11-124) over the constructed service.  *)
(* The effect calls loadWithDelay once for each load its options enable;    *)
(* component.effect is the load the effect has reached.                     *)
(***************************************************************************)
\* the loadWithDelay calls of the effect in program order (lines 79-112)
Loads ==
  << [option |-> "fetchResources",    setter |-> "resources",      flag |-> "isLoadingResources"],
     [option |-> "fetchCostData",     setter |-> "costData",       flag |-> "isLoadingCostData"],
     [option |-> "fetchCostData",     setter |-> "costByProvider", flag |-> "isLoadingCostData"],
     [option |-> "fetchCostData",     setter |-> "costByService",  flag |-> "isLoadingCostData"],
     [option |-> "fetchCostData",     setter |-> "timeSeries",     flag |-> "isLoadingTimeSeries"],
     [option |-> "fetchUtilization",  setter |-> "utilization",    flag |-> "isLoadingUtilization"],
     [option |-> "fetchAnomalies",    setter |-> "anomalies",      flag |-> "isLoadingAnomalies"],
     [option |-> "fetchBudgets",      setter |-> "budgets",        flag |-> "isLoadingBudgets"],
     [option |-> "fetchOptimization", setter |-> "optimization",   flag |-> "isLoadingOptimization"],
     [option |-> "fetchForecast",     setter |-> "forecast",       flag |-> "isLoadingForecast"] >>

\* the first load at or after position i that the options enable
NextLoad(options, i) ==
  IF \E j \in i..Len(Loads) : options[Loads[j].option]
  THEN CHOOSE j \in i..Len(Loads) :
         options[Loads[j].option] /\ \A k \in i..(j - 1) : ~options[Loads[k].option]
  ELSE Len(Loads) + 1

\* the effect has returned
EffectReturned == component.effect > Len(Loads)

\* the data argument of a loadWithDelay call
LoadData(setter, options) ==
  CASE setter = "resources"      -> resources
    [] setter = "costData"       -> costData
    [] setter = "costByProvider" -> CostByProvider(costData)
    [] setter = "costByService"  -> CostByServiceName(costData)
    [] setter = "timeSeries"     -> CostTimeSeries(costData, options.daysForTimeSeries, options.timeSeriesGroupBy)
    [] setter = "utilization"    -> utilizationData
    [] setter = "anomalies"      -> anomalyData
    [] setter = "budgets"        -> budgets
    [] setter = "optimization"   -> optimizationData
    [] OTHER                     -> ForecastData(costData, options.daysForForecast)

\* setter(data); setLoading(false)
Deliver(state, load) ==
  [state EXCEPT !.data[load.setter] = <<load.data>>, !.loading[load.flag] = FALSE]

\* 800 + Math.random() * 1200, in microseconds, after k earlier calls of Math.random
Delay(k) == 800000 + MathRandom(k) * 1200

\* useState: no data, no flag raised
Mounted(options) ==
  [kind    |-> "useMockData",
   options |-> options,
   effect  |-> NextLoad(options, 1),
   data    |-> [setter \in {Loads[j].setter : j \in 1..Len(Loads)} |-> <<>>],
   loading |-> [flag \in {Loads[j].flag : j \in 1..Len(Loads)} |-> FALSE]]

\* the options the hook is mounted with
HookOptions ==
  [fetchResources : BOOLEAN, fetchCostData : BOOLEAN, fetchUtilization : {FALSE},
   fetchAnomalies : {FALSE}, fetchBudgets : BOOLEAN, fetchOptimization : {FALSE},
   fetchForecast : BOOLEAN, daysForForecast : {1}, daysForTimeSeries : {30},
   timeSeriesGroupBy : {"provider"}, simulateLoading : BOOLEAN]

InitHook ==
  /\ now = Instant(2026, 10, 3, 15)
  /\ tz \in {z \in Zones : z.name = "UTC"}
  /\ tape \in Tapes
  /\ rpos = 0
  /\ uuids = 0
  /\ seed = 0
  /\ stage = "constructed"
  /\ resources = <<[SampledResource("EC2", "t3.micro", "running") EXCEPT !.id = [n |-> 1, r |-> 0]]>>
  /\ costData = << SeriesEntry(MakeDay(2026, 10, 1), 10, "AWS", "EC2"),
                   SeriesEntry(MakeDay(2026, 10, 2), 20, "Azure", "CDN"),
                   SeriesEntry(MakeDay(2026, 10, 2), 30, "GCP", "CDN") >>
  /\ utilizationData = <<>>
  /\ anomalyData = <<>>
  /\ budgets = <<>>
  /\ optimizationData = <<>>
  /\ call = NoCall
  /\ component \in {Mounted(options) : options \in HookOptions}
  /\ timers = <<>>

\* the next loadWithDelay(setter, data, setLoading) call of the effect
loadWithDelay ==
  /\ component.kind = "useMockData"
  /\ ~EffectReturned
  /\ \E load \in {Loads[component.effect]} :
     \E data \in {LoadData(load.setter, component.options)} :
     \E drawn \in {IF load.setter = "forecast" THEN Len(data.forecast_values) ELSE 0} :
       IF component.options.simulateLoading
       THEN /\ component' = [component EXCEPT !.loading[load.flag] = TRUE,
                                              !.effect = NextLoad(component.options, component.effect + 1)]
            /\ timers' = SetTimeout(timers, [setter |-> load.setter, flag |-> load.flag, data |-> data,
                                             delay |-> Delay(drawn)])
            /\ rpos' = (rpos + drawn + 1) % TapeLen
       ELSE /\ component' = [Deliver(component, [setter |-> load.setter, flag |-> load.flag, data |-> data])
                               EXCEPT !.effect = NextLoad(component.options, component.effect + 1)]
            /\ timers' = timers
            /\ rpos' = (rpos + drawn) % TapeLen
  /\ UNCHANGED <<now, tz, tape, uuids, seed, stage, resources, costData, utilizationData,
                 anomalyData, budgets, optimizationData, call>>

\* the callback of the timer that is due first runs, once the effect has returned
loadTimeout ==
  /\ component.kind = "useMockData"
  /\ EffectReturned
  /\ timers # <<>>
  /\ component' = Deliver(component, timers[1])
  /\ timers' = Tail(timers)
  /\ UNCHANGED <<now, tz, tape, rpos, uuids, seed, stage, resources, costData, utilizationData,
                 anomalyData, budgets, optimizationData, call>>

NextHook ==
  \/ loadWithDelay
  \/ loadTimeout

SpecHook == InitHook /\ [][NextHook]_vars

(***************************************************************************)
(* The BudgetManagement page (pages/BudgetManagement.tsx:385-865).  A       *)
(* handler runs when its control is rendered and enabled; a budget is held  *)
(* by its id, name, amount and favorite mark, and the notification the      *)
(* handlers show is left out.  call.expected is the list with every         *)
(* confirmed operation applied to it, call.saves the number of saves        *)
(* submitted so far; Date.now() of a save is 100 + call.saves.              *)
(***************************************************************************)
\* submits of the budget form in one run of the page
MaxSaves == 1

\* the first budgets of MOCK_BUDGETS (lines 213-266)
MOCK_BUDGETS ==
  << [id |-> 1, name |-> "EC2 Monthly Budget", amount |-> 5000, favorite |-> FALSE],
     [id |-> 2, name |-> "Development Account Budget", amount |-> 10000, favorite |-> TRUE] >>

\* initialFormData (lines 416-427)
initialFormData == [name |-> "", amount |-> 0]

\* budgets.map(budget => budget.id === editBudgetId ? {...budget, ...formData} : budget)
UpdatedBudgets(list, editBudgetId, formData) ==
  [i \in 1..Len(list) |->
     IF list[i].id = editBudgetId
     THEN [list[i] EXCEPT !.name = formData.name, !.amount = formData.amount]
     ELSE list[i]]

\* [...budgets, newBudget] with id Date.now().toString()
CreatedBudgets(list, formData, id) ==
  Append(list, [id |-> id, name |-> formData.name, amount |-> formData.amount, favorite |-> FALSE])

\* budgets.filter(budget => !budgetsToDelete.includes(budget.id))
RemainingBudgets(list, budgetsToDelete) == SelectSeq(list, LAMBDA budget : budget.id \notin budgetsToDelete)

\* budgets.map(budget => budget.id === budgetId ? {...budget, favorite: !budget.favorite} : budget)
ToggledBudgets(list, budgetId) ==
  [i \in 1..Len(list) |->
     IF list[i].id = budgetId THEN [list[i] EXCEPT !.favorite = ~list[i].favorite] ELSE list[i]]

\* the save applied to the list the page holds when the timer fires
SavedOnCurrent(list, timer, id) ==
  IF timer.editBudgetId # <<>>
  THEN UpdatedBudgets(list, timer.editBudgetId[1], timer.formData)
  ELSE CreatedBudgets(list, timer.formData, id)

\* the save as the callback computes it, from the list captured by handleSubmit
SavedOnCaptured(list, timer, id) == SavedOnCurrent(timer.budgets, timer, id)

\* the mount effect has run (lines 433-459): the page shows its loading state
InitBudgetPage ==
  /\ now = Instant(2026, 10, 3, 15)
  /\ tz \in {z \in Zones : z.name = "UTC"}
  /\ tape = MixedTape
  /\ rpos = 0
  /\ uuids = 0
  /\ seed = 0
  /\ stage = "constructed"
  /\ resources = <<>>
  /\ costData = <<>>
  /\ utilizationData = <<>>
  /\ anomalyData = <<>>
  /\ budgets = <<>>
  /\ optimizationData = <<>>
  /\ call = [expected |-> MOCK_BUDGETS, saves |-> 0]
  /\ component = [kind |-> "BudgetManagement", budgets |-> MOCK_BUDGETS, openDialog |-> FALSE,
                  editBudgetId |-> <<>>, selectedBudgets |-> {}, isLoading |-> TRUE,
                  formData |-> initialFormData, showDeleteDialog |-> FALSE, budgetsToDelete |-> {}]
  /\ timers = <<[kind |-> "loaded", delay |-> 800]>>

\* what every handler of the page leaves alone
PageFrame ==
  /\ component.kind = "BudgetManagement"
  /\ UNCHANGED <<now, tz, tape, rpos, uuids, seed, stage, resources, costData, utilizationData,
                 anomalyData, budgets, optimizationData>>

\* handleOpenDialog(budgetId?): the header button (no selection) opens an
\* empty form, the edit button of a listed budget opens its form
handleOpenDialog ==
  /\ PageFrame
  /\ \/ /\ component.selectedBudgets = {}
        /\ component' = [component EXCEPT !.formData = initialFormData, !.editBudgetId = <<>>,
                                          !.openDialog = TRUE]
     \/ /\ ~component.isLoading
        /\ \E i \in 1..Len(component.budgets) :
             component' = [component EXCEPT
                             !.formData = [name |-> component.budgets[i].name,
                                           amount |-> component.budgets[i].amount],
                             !.editBudgetId = <<component.budgets[i].id>>,
                             !.openDialog = TRUE]
  /\ call' = call
  /\ timers' = timers

\* handleCloseDialog
handleCloseDialog ==
  /\ PageFrame
  /\ component.openDialog
  /\ component' = [component EXCEPT !.openDialog = FALSE]
  /\ call' = call
  /\ timers' = timers

\* handleFormChange(e) on the name or the amount field of the open form
handleFormChange ==
  /\ PageFrame
  /\ component.openDialog
  /\ \E field \in {[name |-> "name", value |-> "Team budget"], [name |-> "amount", value |-> 7500]} :
       component' = [component EXCEPT !.formData[field.name] = field.value]
  /\ call' = call
  /\ timers' = timers

\* handleSubmit: the Create / Update button is disabled while isLoading
handleSubmit ==
  /\ PageFrame
  /\ component.openDialog
  /\ ~component.isLoading
  /\ call.saves < MaxSaves
  /\ IF component.formData.name = "" \/ component.formData.amount <= 0
     THEN /\ component' = component
          /\ timers' = timers
          /\ call' = call
     ELSE /\ component' = [component EXCEPT !.isLoading = TRUE]
          /\ timers' = SetTimeout(timers, [kind |-> "save", delay |-> 800,
                                           budgets |-> component.budgets,
                                           editBudgetId |-> component.editBudgetId,
                                           formData |-> component.formData])
          /\ call' = [call EXCEPT !.saves = call.saves + 1]

\* handleSelectBudget(id) from the checkbox of a listed budget
handleSelectBudget ==
  /\ PageFrame
  /\ ~component.isLoading
  /\ \E i \in 1..Len(component.budgets) :
       \E id \in {component.budgets[i].id} :
         component' = [component EXCEPT !.selectedBudgets =
                         IF id \in component.selectedBudgets
                         THEN component.selectedBudgets \ {id}
                         ELSE component.selectedBudgets \cup {id}]
  /\ call' = call
  /\ timers' = timers

\* handleDeleteMultiple from the header button, shown while budgets are selected
handleDeleteMultiple ==
  /\ PageFrame
  /\ component.selectedBudgets # {}
  /\ component' = [component EXCEPT !.budgetsToDelete = component.selectedBudgets,
                                    !.showDeleteDialog = TRUE]
  /\ call' = call
  /\ timers' = timers

\* confirmDelete from the delete dialog
confirmDelete ==
  /\ PageFrame
  /\ component.showDeleteDialog
  /\ component' = [component EXCEPT
                     !.budgets = RemainingBudgets(component.budgets, component.budgetsToDelete),
                     !.selectedBudgets = component.selectedBudgets \ component.budgetsToDelete,
                     !.showDeleteDialog = FALSE,
                     !.budgetsToDelete = {}]
  /\ call' = [call EXCEPT !.expected = RemainingBudgets(call.expected, component.budgetsToDelete)]
  /\ timers' = timers

\* handleToggleFavorite(budgetId) from the star of a listed budget
handleToggleFavorite ==
  /\ PageFrame
  /\ ~component.isLoading
  /\ \E i \in 1..Len(component.budgets) :
       /\ component' = [component EXCEPT
                          !.budgets = ToggledBudgets(component.budgets, component.budgets[i].id)]
       /\ call' = [call EXCEPT !.expected = ToggledBudgets(call.expected, component.budgets[i].id)]
  /\ timers' = timers

\* the callback of the timer that is due first runs: the end of the initial
\* loading (lines 456-458) or a save (lines 690-711, 717-738)
pageTimeout ==
  /\ PageFrame
  /\ timers # <<>>
  /\ \E timer \in {timers[1]} :
     \E id \in {100 + call.saves} :
       IF timer.kind = "loaded"
       THEN /\ component' = [component EXCEPT !.isLoading = FALSE]
            /\ call' = call
       ELSE /\ component' = [component EXCEPT
                               !.budgets = SavedOnCaptured(component.budgets, timer, id),
                               !.isLoading = FALSE,
                               !.openDialog = FALSE]
            /\ call' = [call EXCEPT !.expected = SavedOnCurrent(call.expected, timer, id)]
  /\ timers' = Tail(timers)

NextBudgetPage ==
  \/ handleOpenDialog
  \/ handleCloseDialog
  \/ handleFormChange
  \/ handleSubmit
  \/ handleSelectBudget
  \/ handleDeleteMultiple
  \/ confirmDelete
  \/ handleToggleFavorite
  \/ pageTimeout

SpecBudgetPage == InitBudgetPage /\ [][NextBudgetPage]_vars

(***************************************************************************)
(* checkBudgetExceed on its own, called with an arbitrary budget and        *)
(* forecast.                                                                *)
(***************************************************************************)
\* longest forecast handed to checkBudgetExceed
MaxPoints == 3

\* predicted costs and spends, in cents
PredictedCosts == {0, 30000, 50000}
CurrentSpends == {40000, 100000, 120000}

\* the instant of the call, and budget end dates around it
CheckInstant == Instant(2026, 10, 3, 15)
EndDates == { formatDate(CheckInstant) + d : d \in {0 - 2, 0, 1, 3} }

CheckBudgets ==
  {<<>>} \cup { <<[id |-> 1, amount |-> 100000, currentSpend |-> s, endDate |-> e]>> :
                  s \in CurrentSpends, e \in EndDates }

\* forecasts of consecutive dates from tomorrow on
CheckForecasts ==
  {<<>>} \cup
    { << [i \in 1..n |-> [date |-> formatDate(CheckInstant) + i, predicted_cost |-> costs[i]]] >> :
        <<n, costs>> \in UNION { {n} \X [1..n -> PredictedCosts] : n \in 0..MaxPoints } }

InitCheck ==
  /\ component = NoComponent
  /\ timers = <<>>
  /\ now = CheckInstant
  /\ tz \in {z \in Zones : z.name = "UTC"}
  /\ tape = MixedTape
  /\ rpos = 0
  /\ uuids = 0
  /\ seed = 0
  /\ stage = "constructed"
  /\ resources = <<>>
  /\ costData = <<>>
  /\ utilizationData = <<>>
  /\ anomalyData = <<>>
  /\ budgets = <<>>
  /\ optimizationData = <<>>
  /\ \E budget \in CheckBudgets, forecast \in CheckForecasts :
       call = [op |-> "checkBudgetExceed", budget |-> budget, forecast |-> forecast,
               state |-> "called", result |-> <<>>]

\* checkBudgetExceed(budget, forecast)
checkBudgetExceed ==
  /\ call.op = "checkBudgetExceed"
  /\ call.state = "called"
  /\ call' = [call EXCEPT !.state = "returned",
                          !.result = CheckBudgetExceed(call.budget, call.forecast, now)]
  /\ UNCHANGED <<component, timers, now, tz, tape, rpos, uuids, seed, stage, resources, costData, utilizationData,
                 anomalyData, budgets, optimizationData>>

NextCheck == checkBudgetExceed

SpecCheck == InitCheck /\ [][NextCheck]_vars

(***************************************************************************)
(* Properties of the constructed service.                                  *)
(***************************************************************************)
\* order of the stages of initializeData
StageRank(s) ==
  CASE s = "new" -> 0
    [] s = "resources" -> 1
    [] s = "costData" -> 2
    [] s = "utilization" -> 3
    [] s = "anomalies" -> 4
    [] s = "budgets" -> 5
    [] OTHER -> 6

\* the stage s has run
Reached(s) == StageRank(stage) >= StageRank(s)

SamplesOf(resource) ==
  {j \in 1..Len(utilizationData) : utilizationData[j].resource_id = resource.id}

\* C1: once the utilization stage has run, a generated resource has status
\* "running" if and only if at least one utilization sample carries its id.
C1_RunningIffSampled ==
  Reached("utilization") =>
    \A n \in 1..Len(resources) :
      (resources[n].status = "running") <=> (SamplesOf(resources[n]) # {})

\* a constructed service holding both a running resource and one that is not
C1_Witness ==
  /\ Reached("utilization")
  /\ \E n \in 1..Len(resources) : resources[n].status = "running"
  /\ \E n \in 1..Len(resources) : resources[n].status # "running"
  /\ utilizationData # <<>>

\* the entries of one (provider, service) pair, in the order generated
EntriesOf(pair) ==
  SelectSeq(costData, LAMBDA e : e.cloud_provider = pair.provider /\ e.service = pair.service)

\* the date string of today, as formatDate gives it
Today == formatDate(now)

\* C2: every (provider, service) pair of the generated cost series has exactly
\* CostDays entries, on pairwise distinct dates, and these dates are the
\* CostDays consecutive dates that end today.
C2_TrailingWindow ==
  Reached("costData") =>
    \A n \in 1..Len(CostPairs) :
      \E es \in {EntriesOf(CostPairs[n])} :
        /\ Len(es) = CostDays
        /\ \A a, b \in 1..Len(es) : a # b => es[a].date # es[b].date
        /\ {es[a].date : a \in 1..Len(es)} = (Today - CostDays + 1)..Today

\* C3: every generated cost entry has daily_cost >= 10 dollars.
C3_CostFloor ==
  \A j \in 1..Len(costData) : costData[j].daily_cost >= 1000

\* a generated series in which the floor decided an entry's cost
C3_Witness ==
  /\ Reached("costData")
  /\ \E j \in 1..Len(costData) : costData[j].daily_cost = 1000

(***************************************************************************)
(* Properties of the anomaly extractor.                                    *)
(***************************************************************************)
Extracted == call.op = "generateAnomalies" /\ call.runs >= 1

SamePair(a, b) == a.service = b.service /\ a.cloud_provider = b.cloud_provider

\* C4: every emitted anomaly stores a percentage_increase above 25 (250 tenths)
\* and an expected_cost that is the daily_cost of an entry of the same service
\* and provider dated exactly one calendar day before the anomaly's date.
C4_PriorDayBaseline ==
  Extracted =>
    \A i \in 1..Len(anomalyData) :
      /\ anomalyData[i].percentage_increase > 250
      /\ \E j \in 1..Len(costData) :
           /\ SamePair(costData[j], anomalyData[i])
           /\ costData[j].date = anomalyData[i].date - 1
           /\ costData[j].daily_cost = anomalyData[i].expected_cost

\* entries whose daily_cost is strictly above that of the anomaly
CostlierThan(anomaly) == {j \in 1..Len(costData) : costData[j].daily_cost > anomaly.daily_cost}

\* the anomaly reports one of the cost entries
FromEntry(anomaly) ==
  \E j \in 1..Len(costData) :
    /\ SamePair(costData[j], anomaly)
    /\ costData[j].date = anomaly.date
    /\ costData[j].daily_cost = anomaly.daily_cost

\* C5: generateAnomalies(count) keeps at most count anomalies, each one reporting
\* an entry among the 2*count costliest, in non-increasing daily_cost order.
C5_TopCostsInOrder ==
  Extracted =>
    /\ Len(anomalyData) <= call.count
    /\ \A i \in 1..Len(anomalyData) :
         FromEntry(anomalyData[i]) /\ Cardinality(CostlierThan(anomalyData[i])) < 2 * call.count
    /\ \A i, k \in 1..Len(anomalyData) :
         i < k => anomalyData[i].daily_cost >= anomalyData[k].daily_cost

\* more entries than are scanned, and more candidates among the scanned than are kept
C5_Witness ==
  /\ Extracted
  /\ Len(costData) > 2 * call.count
  /\ Len(anomalyData) = call.count
  /\ Len(PushedAnomalies(costData, call.count)) > call.count

\* the fields of an anomaly that do not come from uuidv4() or Math.random()
Findings(list) ==
  [i \in 1..Len(list) |->
     <<list[i].date, list[i].service, list[i].cloud_provider,
       list[i].expected_cost, list[i].percentage_increase, list[i].severity>>]

\* C6: a second run of generateAnomalies over the same cost entries yields the
\* same sequence of (date, service, cloud_provider, expected_cost,
\* percentage_increase, severity), and no run changes the cost entries.
C6_Idempotent ==
  /\ Extracted => costData = call.input
  /\ (call.op = "generateAnomalies" /\ call.runs >= 2) => Findings(anomalyData) = Findings(call.before)

\* a second run over an unsorted series that reports an anomaly under a new id and score
C6_Witness ==
  /\ call.op = "generateAnomalies" /\ call.runs = 2
  /\ costData # SortByCostDesc(costData)
  /\ anomalyData # <<>> /\ call.before # <<>>
  /\ anomalyData[1].id # call.before[1].id
  /\ anomalyData[1].anomaly_score # call.before[1].anomaly_score

\* C7: over two entries of one service and provider on consecutive dates, the
\* later cost more than 25 % above the earlier, exactly one anomaly is emitted:
\* dated the later day, expected_cost the earlier cost, percentage_increase the
\* increase rounded to one decimal, and for 1000 then 1300: 30.0 and "low".
C7_TwoDaySpike ==
  \A e, l \in 1..Len(costData) :
    ( /\ Extracted
      /\ Len(costData) = 2
      /\ SamePair(costData[e], costData[l])
      /\ costData[l].date = costData[e].date + 1
      /\ costData[l].daily_cost * 100 > 125 * costData[e].daily_cost )
    => /\ Len(anomalyData) = 1
       /\ anomalyData[1].date = costData[l].date
       /\ anomalyData[1].expected_cost = costData[e].daily_cost
       /\ anomalyData[1].percentage_increase
            = RoundDiv((costData[l].daily_cost - costData[e].daily_cost) * 1000, costData[e].daily_cost)
       /\ (costData[e].daily_cost = 100000 /\ costData[l].daily_cost = 130000)
            => (anomalyData[1].percentage_increase = 300 /\ anomalyData[1].severity = "low")

(***************************************************************************)
(* Properties of the forecast.                                             *)
(***************************************************************************)
Forecasting(state) == call.op = "generateForecastData" /\ call.state = state

\* C8: generateForecastData called with an empty cost series throws and returns
\* no result; called with a non-empty series it returns a result.
C8_EmptySeriesThrows ==
  /\ (Forecasting("threw") \/ Forecasting("returned")) =>
       /\ costData = <<>> => call.state = "threw" /\ call.error # "" /\ call.result = <<>>
       /\ costData # <<>> => call.state = "returned" /\ Len(call.result) = 1
  /\ Forecasting("called") => call.result = <<>>

\* a call with the empty series that has thrown
C8_Witness == Forecasting("threw") /\ costData = <<>> /\ call.result = <<>>

\* C9: the result of generateForecastData(series, days) has forecast_dates,
\* forecast_values, lower_bound and upper_bound of length exactly days.
C9_ParallelArrays ==
  Forecasting("returned") =>
    /\ Len(call.result[1].forecast_dates) = call.days
    /\ Len(call.result[1].forecast_values) = call.days
    /\ Len(call.result[1].lower_bound) = call.days
    /\ Len(call.result[1].upper_bound) = call.days

\* a forecast over the farthest horizon
C9_Witness ==
  /\ Forecasting("returned")
  /\ call.days = MaxDays
  /\ Len(call.result[1].forecast_dates) = MaxDays

\* C10: at every index of a returned forecast,
\* lower_bound[i] <= forecast_values[i] <= upper_bound[i].
C10_WithinBand ==
  Forecasting("returned") =>
    \A i \in 1..Len(call.result[1].forecast_values) :
      /\ Leq(call.result[1].lower_bound[i], call.result[1].forecast_values[i])
      /\ Leq(call.result[1].forecast_values[i], call.result[1].upper_bound[i])

\* upper_bound[i] - lower_bound[i]; the two bounds of a step are of one kind,
\* and Infinity - Infinity is NaN
BandWidth(result, i) ==
  IF result.upper_bound[i].kind = "finite" /\ result.lower_bound[i].kind = "finite"
  THEN Finite(result.upper_bound[i].v - result.lower_bound[i].v)
  ELSE NaN

\* C11: in every returned forecast the band width upper_bound[i] - lower_bound[i]
\* is non-decreasing along the forecast.
C11_BandWidens ==
  Forecasting("returned") =>
    \A i \in 1..Len(call.result[1].forecast_values) - 1 :
      Leq(BandWidth(call.result[1], i), BandWidth(call.result[1], i + 1))

\* the entry the forecast starts from, and the one the trend is measured against
LastEntry == RecentData(SortByDateDesc(costData))[1]
OldestRecentEntry ==
  RecentData(SortByDateDesc(costData))[Len(RecentData(SortByDateDesc(costData)))]

\* v within 5 % of cost, both in cents
WithinFivePercent(x, cost) ==
  x.kind = "finite" /\ 100 * x.v >= 95 * cost /\ 100 * x.v <= 105 * cost

\* C12: when the last cost equals the cost of the trend baseline, every
\* forecast_values[i] lies within 5 % of the last cost; confidence_level is 0.9
\* for every input.
C12_FlatTrend ==
  Forecasting("returned") =>
    /\ call.result[1].confidence_level = 900
    /\ LastEntry.daily_cost = OldestRecentEntry.daily_cost =>
         \A i \in 1..Len(call.result[1].forecast_values) :
           WithinFivePercent(call.result[1].forecast_values[i], LastEntry.daily_cost)

(***************************************************************************)
(* Properties of getCostTimeSeries.                                        *)
(***************************************************************************)
\* C13: getCostTimeSeries(days, groupBy) returns days + 1 timestamps, the
\* consecutive calendar dates from `days` days ago through today; with groupBy
\* 'daily' there is exactly one series, named 'Total Cost'.
C13_WindowDates ==
  call.op = "getCostTimeSeries" =>
    /\ Len(call.result.timestamps) = call.days + 1
    /\ \A k \in 1..Len(call.result.timestamps) :
         call.result.timestamps[k] = Today - call.days + k - 1
    /\ call.groupBy = "daily" =>
         /\ Len(call.result.series) = 1
         /\ call.result.series[1].name = "Total Cost"

\* the cached cost entries of a date that belong to the group of a series
GroupEntries(groupBy, name, date) ==
  SelectSeq(costData, LAMBDA entry : InSeries(entry, groupBy, name, date))

\* C14: every series' data is as long as timestamps, and data[k] is the sum of
\* daily_cost over all cached cost entries dated timestamps[k] that belong to
\* the series' group, the oldest date of the window included.
C14_SeriesSums ==
  call.op = "getCostTimeSeries" =>
    \A n \in 1..Len(call.result.series) :
      /\ Len(call.result.series[n].data) = Len(call.result.timestamps)
      /\ \A k \in 1..Len(call.result.timestamps) :
           \E es \in {GroupEntries(call.groupBy, call.result.series[n].name,
                                   call.result.timestamps[k])} :
             call.result.series[n].data[k] = SumCost(es, Len(es))

(***************************************************************************)
(* Properties of checkBudgetExceed.                                        *)
(***************************************************************************)
Checked == call.op = "checkBudgetExceed" /\ call.state = "returned"

\* the budget is missing, or the forecast is missing or empty
NothingToCheck == call.budget = <<>> \/ call.forecast = <<>> \/ call.forecast[1] = <<>>

\* number of forecast points within the budget's remaining days: none once the
\* end date has passed
PointsWithinBudget ==
  IF ParseDate(call.budget[1].endDate) <= now THEN 0
  ELSE Min(CeilDiv(ParseDate(call.budget[1].endDate) - now, HoursPerDay), Len(call.forecast[1]))

\* C15: checkBudgetExceed returns null when the budget is missing or the
\* forecast is empty; otherwise willExceed holds exactly when currentSpend plus
\* the predicted_cost of the forecast points within the budget's remaining days
\* is greater than the budget's amount.
C15_ExceedWithinRemainingDays ==
  Checked =>
    /\ NothingToCheck <=> call.result = <<>>
    /\ ~NothingToCheck =>
         (call.result[1].willExceed
            <=> call.budget[1].currentSpend + SumPredicted(call.forecast[1], PointsWithinBudget)
                  > call.budget[1].amount)

\* cumulative predicted spend up to point i reaches the remaining budget
ReachesBudget(i) ==
  SumPredicted(call.forecast[1], i) >= call.budget[1].amount - call.budget[1].currentSpend

\* C16: when willExceed is true, projectedExceedDate is non-null and is the date
\* of the earliest forecast point at which the cumulative predicted spend
\* reaches amount - currentSpend; when willExceed is false it is null.
C16_ExceedDate ==
  (Checked /\ ~NothingToCheck) =>
    IF call.result[1].willExceed
    THEN /\ call.result[1].projectedExceedDate # <<>>
         /\ \E i \in 1..Len(call.forecast[1]) :
              /\ call.result[1].projectedExceedDate = <<ParseDate(call.forecast[1][i].date)>>
              /\ ReachesBudget(i)
              /\ \A m \in 1..(i - 1) : ~ReachesBudget(m)
    ELSE call.result[1].projectedExceedDate = <<>>

(***************************************************************************)
(* Properties of generateBudgets.                                          *)
(***************************************************************************)
\* the history of a budget is in date order with non-decreasing spend
HistoryGrows(history) ==
  \A i \in 1..(Len(history) - 1) :
    /\ history[i].date <= history[i + 1].date
    /\ history[i].spend <= history[i + 1].spend

\* C17: for every Budget produced by generateBudgets, monthly and quarterly
\* alike, the history entries are in non-decreasing date order and their spend
\* values are non-decreasing along the sequence.
C17_HistoryMonotonic ==
  \A i \in 1..Len(budgets) : HistoryGrows(budgets[i].history)

(***************************************************************************)
(* Properties of the constructor (initializeData).                         *)
(***************************************************************************)
\* C18: constructing the service runs the stages exactly once each and in the
\* order resources, cost history, utilization, anomalies, budgets: every step
\* leaves the stage alone or moves it to the next one, each cache is written
\* only by its own stage, utilization is written with the resources in place,
\* anomalies and budgets with the cost history in place, and no cache changes
\* after construction.
C18_StagesOnceInOrder ==
  [][ /\ StageRank(stage') \in {StageRank(stage), StageRank(stage) + 1}
      /\ resources' # resources => stage = "new" /\ stage' = "resources"
      /\ costData' # costData => stage = "resources" /\ stage' = "costData"
      /\ utilizationData' # utilizationData =>
           stage = "costData" /\ stage' = "utilization" /\ resources # <<>>
      /\ anomalyData' # anomalyData =>
           stage = "utilization" /\ stage' = "anomalies" /\ costData # <<>>
      /\ budgets' # budgets =>
           stage = "anomalies" /\ stage' = "budgets" /\ costData # <<>>
      /\ stage = "constructed" =>
           UNCHANGED <<stage, resources, costData, utilizationData, anomalyData, budgets,
                       optimizationData>> ]_vars

\* the service is constructed, every cache is filled and a later call has run
C18_Witness ==
  /\ stage = "constructed"
  /\ call.op = "getCostTimeSeries"
  /\ resources # <<>> /\ costData # <<>> /\ utilizationData # <<>>
  /\ anomalyData # <<>> /\ budgets # <<>> /\ optimizationData # <<>>

HasPriorDay(j) ==
  \E m \in 1..Len(costData) :
    SamePair(costData[m], costData[j]) /\ costData[m].date = costData[j].date - 1

\* the anomaly reports the cost entry j
EmittedFor(anomaly, j) ==
  /\ SamePair(anomaly, costData[j])
  /\ anomaly.date = costData[j].date
  /\ anomaly.daily_cost = costData[j].daily_cost

\* C20: a cost entry with no entry of the same service and provider on the
\* preceding calendar day is skipped: the run ends without an error, no anomaly
\* is emitted for that entry, and at most count anomalies are returned.
C20_SkipsWithoutPriorDay ==
  Extracted =>
    /\ Len(anomalyData) <= call.count
    /\ \A j \in 1..Len(costData) :
         ~HasPriorDay(j) => \A i \in 1..Len(anomalyData) : ~EmittedFor(anomalyData[i], j)

(***************************************************************************)
(* Properties of generateResources.                                        *)
(***************************************************************************)
\* C21: two runs of generateResources with the same seed and the same count
\* produce identical resource sequences in every field, id and name included.
C21_SeedDeterminesResources ==
  (call.op = "generateResources" /\ call.runs = 2) => resources = call.before

\* monthly_cost (in cents) lies between lo and hi dollars
CostWithin(resource, lo, hi) ==
  resource.monthly_cost >= lo * 100 /\ resource.monthly_cost <= hi * 100

\* C22: for every generated compute resource, monthly_cost lies in [10, 60]
\* when its size is a micro/small tier, in [50, 200] when it is a medium/large
\* tier (t3.medium, t3.large, m5.large, ...), and in [200, 1000] otherwise.
C22_ComputeCostTiers ==
  \A i \in 1..Len(resources) :
    IsCompute(resources[i].type) =>
      IF Includes(resources[i].size, "micro") \/ Includes(resources[i].size, "small")
      THEN CostWithin(resources[i], 10, 60)
      ELSE IF Includes(resources[i].size, "medium") \/ Includes(resources[i].size, "large")
           THEN CostWithin(resources[i], 50, 200)
           ELSE CostWithin(resources[i], 200, 1000)

(***************************************************************************)
(* Properties of generateCostData.                                         *)
(***************************************************************************)
\* calendar months from the Date `first` to the Date `date`
MonthsElapsed(first, date) ==
  (GetFullYear(date) * 12 + GetMonth(date)) - (GetFullYear(first) * 12 + GetMonth(first))

\* C23: the trend factor applied to a day's cost is 1 + 0.05 * monthIndex with
\* monthIndex the number of months elapsed from the first day of the generated
\* series to that day: 0 on the first day, whatever the current month.
C23_TrendFromSeriesStart ==
  Reached("costData") =>
    \A i \in 0..(CostDays - 1) :
      TrendFactor(MonthIndex(LoopDate(CostDays, i), now))
        = 100 + 5 * MonthsElapsed(LoopDate(CostDays, 0), LoopDate(CostDays, i))

(***************************************************************************)
(* Forecast and number of the generated budgets.                           *)
(***************************************************************************)
\* C24: for every monthly service budget, forecast equals
\* amount * progress * (currentSpend / (amount * progress)), which is
\* currentSpend, up to rounding to two decimals (one cent).
C24_MonthlyForecast ==
  \A i \in 1..Len(budgets) :
    budgets[i].period = "monthly" =>
      /\ budgets[i].forecast - budgets[i].currentSpend <= 1
      /\ budgets[i].currentSpend - budgets[i].forecast <= 1

\* total daily_cost of the cost entries of a provider's service
ServiceTotal(provider, service) ==
  SumCost(EntriesFor(provider, service), Len(EntriesFor(provider, service)))

\* the services of a provider that have cost entries
ServicesWithCost(provider) ==
  { costData[j].service : j \in {m \in 1..Len(costData) : costData[m].cloud_provider = provider} }

\* positions of the monthly service budgets of a provider
MonthlyOf(provider) ==
  { i \in 1..Len(budgets) : budgets[i].period = "monthly" /\ budgets[i].provider = provider }

\* the service is among the two of the provider with the highest total cost
AmongTopTwo(provider, service) ==
  Cardinality({ other \in ServicesWithCost(provider) :
                  ServiceTotal(provider, other) > ServiceTotal(provider, service) }) < 2

\* the number of monthly budgets over all providers
MonthlyCount ==
  Cardinality(MonthlyOf("AWS")) + Cardinality(MonthlyOf("Azure")) + Cardinality(MonthlyOf("GCP"))

\* C25: generateBudgets creates, for each provider, a monthly service budget
\* for each of the 2 services of that provider with the highest total cost
\* (fewer only if fewer services have cost entries), followed by exactly 2
\* quarterly budgets of type region or account, with ids 1, 2, ... in order.
C25_TopTwoPerProvider ==
  stage = "budgets" =>
    /\ \A p \in 1..Len(CLOUD_PROVIDERS) :
         LET provider == CLOUD_PROVIDERS[p]
         IN  /\ Cardinality(MonthlyOf(provider)) = Min(2, Cardinality(ServicesWithCost(provider)))
             /\ \A i \in MonthlyOf(provider) :
                  /\ budgets[i].resourceType = "service"
                  /\ budgets[i].resource \in ServicesWithCost(provider)
                  /\ AmongTopTwo(provider, budgets[i].resource)
                  /\ \A m \in MonthlyOf(provider) : m # i => budgets[m].resource # budgets[i].resource
    /\ Len(budgets) = MonthlyCount + 2
    /\ \A i \in 1..Len(budgets) :
         /\ budgets[i].id = i
         /\ i <= MonthlyCount => budgets[i].period = "monthly"
         /\ i > MonthlyCount =>
              budgets[i].period = "quarterly" /\ budgets[i].resourceType \in {"region", "account"}

\* budgets were generated for a provider with three services of different
\* totals, one with a single service and one with two
C25_Witness ==
  /\ stage = "budgets"
  /\ Cardinality(ServicesWithCost("AWS")) = 3
  /\ ServiceTotal("AWS", "EC2") < ServiceTotal("AWS", "S3")
  /\ ServiceTotal("AWS", "S3") < ServiceTotal("AWS", "RDS")
  /\ Cardinality(MonthlyOf("AWS")) = 2
  /\ Cardinality(MonthlyOf("Azure")) = 1
  /\ Len(budgets) = 7

(***************************************************************************)
(* Properties of generateUtilizationData.                                  *)
(***************************************************************************)
\* the calendar day, in the host's zone, of an instant
LocalDay(t) == LocalTime(t) \div HoursPerDay

\* C26: every utilization sample has cpu_percent within [1, 99] and
\* memory_percent within [5, 99] (values in tenths), and every running
\* resource has 4 * days samples, exactly 4 on each day of the window.
C26_ClampedFourADay ==
  stage = "utilization" =>
    /\ \A j \in 1..Len(utilizationData) :
         /\ utilizationData[j].cpu_percent >= 10 /\ utilizationData[j].cpu_percent <= 990
         /\ utilizationData[j].memory_percent >= 50 /\ utilizationData[j].memory_percent <= 990
    /\ \A n \in 1..Len(resources) :
         resources[n].status = "running" =>
           /\ Cardinality(SamplesOf(resources[n])) = 4 * UtilDays
           /\ \A d \in (LocalDay(now) - UtilDays + 1)..LocalDay(now) :
                Cardinality({ j \in SamplesOf(resources[n]) :
                                LocalDay(utilizationData[j].timestamp) = d }) = 4

\* samples were generated with values at the cap and at the memory floor
C26_Witness ==
  /\ stage = "utilization"
  /\ \E n \in 1..Len(resources) : resources[n].status = "running"
  /\ \E j \in 1..Len(utilizationData) : utilizationData[j].cpu_percent = 990
  /\ \E j \in 1..Len(utilizationData) : utilizationData[j].memory_percent = 990
  /\ \E j \in 1..Len(utilizationData) : utilizationData[j].memory_percent = 50

(***************************************************************************)
(* Properties of the query surface and of the mock-mode API.               *)
(***************************************************************************)
\* C27: after construction no call to the accessors or to the mock-mode API
\* changes the cached resources, cost history, utilization, anomalies or
\* budgets, and getBudgets returns the cached budgets whatever was created,
\* updated or deleted before.
C27_QueriesLeaveCaches ==
  [][ /\ UNCHANGED <<resources, costData, utilizationData, anomalyData, budgets>>
      /\ call'.op = "getBudgets" => call'.result = budgets ]_vars

\* getBudgets was called after a budget was deleted through the API
C27_Witness ==
  /\ call.op = "getBudgets"
  /\ call.budgetCall = "deleteBudget"
  /\ budgets # <<>>
  /\ costData # <<>>

C29_LoadingUntilAllDelivered ==
  ( /\ component.kind = "useMockData"
    /\ EffectReturned
    /\ component.options.fetchCostData
    /\ component.options.simulateLoading
    /\ ~component.loading["isLoadingCostData"] )
  => \A setter \in {"costData", "costByProvider", "costByService"} : component.data[setter] # <<>>

\* a loading flag that is raised has a timer pending that will lower it
RaisedFlagHasTimer ==
  (component.kind = "useMockData" /\ EffectReturned) =>
    \A flag \in DOMAIN component.loading :
      component.loading[flag] => \E i \in 1..Len(timers) : timers[i].flag = flag

(***************************************************************************)
(* Properties of the BudgetManagement page.                                *)
(***************************************************************************)
\* C30: once no save is pending, the budget list of the page reflects every
\* confirmed operation: each delete, favorite toggle, update and create,
\* also those made between a submit and the firing of its save timer.
C30_NoLostUpdate ==
  (component.kind = "BudgetManagement" /\ timers = <<>>) => component.budgets = call.expected

====
